---- MODULE Spec2Model ----
(***************************************************************************)
(* Dynamic-content synchronisation layer of navibrowser:                   *)
(*   NetworkMonitor  (NetworkTracker)  - pending / completed requests,     *)
(*                                       waitForNetworkIdle, waitForRequests*)
(*   DOMObserver     (MutationTracker) - waitForContent / ...Removal       *)
(*   SPANavigator    (RouteTracker)    - waitForRouteChange                *)
(*   LoadingDetector (LoadingArbiter)  - waitForContentLoaded              *)
(* Time is counted in units of 100 ms (the shortest poll interval of the   *)
(* code).  A timer that is due runs before the clock advances further.     *)
(***************************************************************************)
EXTENDS Integers, Sequences, FiniteSets, TLC

(***************************************************************************)
(* Bounds of the model                                                     *)
(***************************************************************************)
MaxStarts == 2          \* requestWillBeSent events of one run (NetSpec)
MaxRequests == 103      \* requests of one run of HistSpec
MaxFailures == 1        \* loadingFailed events of one run of HistSpec
MaxCalls == 4           \* start / stop calls of one run
MaxOverlap == 2         \* start calls of one run that may overlap
MaxBatches == 3         \* mutation batches of one run
MaxTime == 7            \* the clock of a run with a relay loop
MaxTransitions == 2     \* route transitions of one run of RouteSpec
MaxRouteEvents == 102   \* URL changes of the tab in one run of RouteHistSpec
MaxDispatch == 2        \* events of one run of DispatchSpec
MaxOps == 3             \* initialize / cleanup calls of one run of CoordSpec
MaxRemovals == 1        \* removeCallback calls of one run of SubSpec

None == 0 - 1           \* "no timer scheduled" / "not resolved yet"

(***************************************************************************)
(* Program constants, in units of 100 ms                                   *)
(***************************************************************************)
maxCompletedRequests == 100
IdlePollInterval == 1
IdleTimeDefault == 10
DebounceDefault == 3
RelayInterval == 1
RouteHistoryLimit == 100

ReqIds == 1..2
SlashA == <<"/", "a">>
SlashB == <<"/", "b">>
Urls == {SlashA, SlashB}
PatternLists == {<< >>, <<SlashA>>, <<SlashB>>, <<SlashA, SlashB>>, <<SlashA, SlashA>>}
\* <<ignoreUrls, onlyUrls>> of the waitForNetworkIdle calls
UrlFilters == {<< << >>, << >> >>, << << >>, <<SlashA>> >>,
               << <<SlashA>>, << >> >>, << <<SlashA>>, <<SlashA>> >>}
IdleTimes == {2}
NetTimeouts == {4}

\* the page, as the waits of WaitSpec see it
DynSelectors == {".spinner", ".results"}
TextLoading == <<"L", "o", "a", "d", "i", "n", "g">>
TextDone == <<"D", "o", "n", "e">>
PageTexts == {TextLoading, TextDone}
loading == <<"l", "o", "a", "d", "i", "n", "g">>
RouteHome == <<"/">>
RouteX == <<"/", "x">>
Routes == {RouteHome, RouteX}
RouteHashed == <<"/", "#", "/">>
NavTimeouts == {8}
DomTimeouts == {6}
RouteTimeouts == {2}
ArbTimeouts == {12}
ShortTimeouts == {4}         \* even, so that timeout / 2 is whole

VARIABLES
  now,                \* Date.now()
  domPresent,         \* the page: the selectors that match an element now
  bodyText,           \* the page: document.body.textContent
  pageRoute,          \* the page: pathname + search + hash
  pageOk,             \* the page: can it be reached (else executeScript throws)
  currentRoute,       \* SPANavigator.currentRoute
  pendingRequests,    \* NetworkMonitor.pendingRequests : requestId -> NetworkRequest
  completedRequests,  \* NetworkMonitor.completedRequests
  requestCallbacks,   \* NetworkMonitor.requestCallbacks : id -> listener (the wait owning it)
  waits,              \* the wait calls made so far, one record per returned promise
  domObserver,        \* LoadingDetector: was it built with a DOMObserver
  networkMonitor,     \* LoadingDetector: was it built with a NetworkMonitor
  arb,                \* the waitForContentLoaded call of the run
  terminated,         \* history: the requests in the order they were moved to completed
  started,            \* history: number of requestWillBeSent events handled
  domT,               \* the DOMObserver and what it has installed in the page
  netT,               \* the NetworkMonitor and its debugger session
  spaT,               \* the SPANavigator and what it has installed in the page
  calls,              \* the start / stop calls made on the trackers
  mgr,                \* the DynamicStateManager
  trace               \* history: calls counted, callbacks invoked

vars == <<now, domPresent, bodyText, pageRoute, pageOk, currentRoute,
          pendingRequests, completedRequests, requestCallbacks, waits,
          domObserver, networkMonitor, arb, terminated, started,
          domT, netT, spaT, calls, mgr, trace>>

lifeVars == <<domT, netT, spaT, calls, mgr, trace>>

\* the page and what no wait and no network event writes
pageVars == <<domPresent, bodyText, pageRoute, pageOk, currentRoute, domObserver, networkMonitor,
              lifeVars>>

netVars == <<pendingRequests, completedRequests, requestCallbacks, terminated, started>>

(***************************************************************************)
(* Helpers                                                                 *)
(***************************************************************************)
Range(s) == {s[i] : i \in DOMAIN s}

\* String.prototype.includes
Includes(s, p) ==
  \E i \in 0..(Len(s) - Len(p)) : \A j \in 1..Len(p) : s[i + j] = p[j]

\* Map.set / Map.delete
MapSet(m, k, v) == [x \in DOMAIN m \cup {k} |-> IF x = k THEN v ELSE m[x]]
MapDelete(m, k) == [x \in DOMAIN m \ {k} |-> m[x]]
EmptyMap == [x \in {} |-> 0]

NetworkRequest(requestId, url) ==
  [requestId |-> requestId, url |-> url, status |-> 0,
   completed |-> FALSE, failed |-> FALSE]

NoWait ==
  [kind |-> "none", start |-> 0, timeout |-> 0, next |-> None,
   status |-> "run", doneAt |-> None,
   idleTime |-> 0, onlyUrls |-> << >>, ignoreUrls |-> << >>,
   lastActivityTime |-> 0, urlPatterns |-> << >>, matchedRequests |-> {},
   task |-> "",           \* the condition of waitForContentLoaded the wait belongs to
   selector |-> "", shouldExist |-> TRUE, checkInterval |-> 0,
   textPatterns |-> << >>, expectedRoute |-> << >>,
   errored |-> FALSE,     \* history: a page call of this wait threw
   routeAtCall |-> << >>, \* history: the page's route when waitForRouteChange was called
   routeAtDone |-> << >>, \* history: the page's route when it resolved
   emptySince |-> None,   \* history: since when the relevant pending set is empty
   pendingAtDone |-> {}]  \* history: the URLs pending when the promise resolved

NoCall ==
  [pc |-> "idle", promises |-> << >>, timeout |-> 0, start |-> 0,
   result |-> FALSE, doneAt |-> None, platform |-> "", depth |-> 0]

\* resolve(v) of a promise: only the first call has an effect
Resolve(w, v) ==
  IF w.status = "run"
  THEN [w EXCEPT !.status = IF v THEN "true" ELSE "false", !.doneAt = now,
                 !.pendingAtDone = {pendingRequests[id].url : id \in DOMAIN pendingRequests}]
  ELSE w

(***************************************************************************)
(* NetworkMonitor: request bookkeeping                                     *)
(***************************************************************************)
\* onRequest(id, callback): Map.set keeps the position of an existing key
onRequest(cbs, id, listener) ==
  IF \E k \in DOMAIN cbs : cbs[k].id = id
  THEN [k \in DOMAIN cbs |->
          IF cbs[k].id = id THEN [id |-> id, listener |-> listener] ELSE cbs[k]]
  ELSE Append(cbs, [id |-> id, listener |-> listener])

removeRequestCallback(cbs, id) == SelectSeq(cbs, LAMBDA e : e.id # id)

\* the requestListener closure of waitForRequests call i, applied to one request
requestListener(i, request, st) ==
  IF request.completed
  THEN LET w == st.waits[i]
           m == w.matchedRequests \cup
                {p \in Range(w.urlPatterns) : Includes(request.url, p)}
       IN IF Cardinality(m) = Len(w.urlPatterns)
          THEN [waits |-> [st.waits EXCEPT
                   ![i] = Resolve([w EXCEPT !.matchedRequests = m], TRUE)],
                callbacks |-> removeRequestCallback(st.callbacks, "waitForRequests")]
          ELSE [waits |-> [st.waits EXCEPT ![i].matchedRequests = m],
                callbacks |-> st.callbacks]
  ELSE st

\* a callback given to onRequest by a subscriber (listener 0), called with one
\* request: the entry remembers the calls made; the callback may throw after that
subscriberCalled(e, request, st) ==
  [st EXCEPT !.callbacks =
     [k \in DOMAIN @ |-> IF @[k].id = e.id
                          THEN [@[k] EXCEPT !.seen = Append(@, request)] ELSE @[k]]]

called(e, request, st) ==
  IF e.listener = 0 THEN subscriberCalled(e, request, st)
  ELSE requestListener(e.listener, request, st)

\* notifyCallbacks without the try / catch: a callback that throws ends the forEach
RECURSIVE notifyFrom_uncaught(_, _, _)
notifyFrom_uncaught(entries, request, st) ==
  IF entries = << >> THEN st
  ELSE LET e == Head(entries)
           live == \E k \in DOMAIN st.callbacks : st.callbacks[k] = e
       IN IF live /\ e.listener = 0 /\ e.throws
          THEN called(e, request, st)
          ELSE notifyFrom_uncaught(Tail(entries), request,
                                   IF live THEN called(e, request, st) ELSE st)

\* notifyCallbacks: Map.forEach over the registry, skipping entries deleted
\* meanwhile; what a callback throws is caught and logged
RECURSIVE notifyFrom(_, _, _)
notifyFrom(entries, request, st) ==
  IF entries = << >> THEN st
  ELSE LET e == Head(entries)
           live == \E k \in DOMAIN st.callbacks : st.callbacks[k] = e
       IN notifyFrom(Tail(entries), request,
                     IF live THEN called(e, request, st) ELSE st)

notifyCallbacks(request, ws, cbs) ==
  notifyFrom(cbs, request, [waits |-> ws, callbacks |-> cbs])

\* Relevant with ignoreUrls tested before onlyUrls
Relevant_ignoreFirst(w, request) ==
  IF Len(w.ignoreUrls) > 0
  THEN ~ \E k \in DOMAIN w.ignoreUrls : Includes(request.url, w.ignoreUrls[k])
  ELSE IF Len(w.onlyUrls) > 0
       THEN \E k \in DOMAIN w.onlyUrls : Includes(request.url, w.onlyUrls[k])
       ELSE TRUE

\* the filter of waitForNetworkIdle
Relevant(w, request) ==
  IF Len(w.onlyUrls) > 0
  THEN \E k \in DOMAIN w.onlyUrls : Includes(request.url, w.onlyUrls[k])
  ELSE IF Len(w.ignoreUrls) > 0
       THEN ~ \E k \in DOMAIN w.ignoreUrls : Includes(request.url, w.ignoreUrls[k])
       ELSE TRUE

relevantRequests(w, pending) == {id \in DOMAIN pending : Relevant(w, pending[id])}

\* history only: keep emptySince of every running idle wait up to date
Observe(ws, pending) ==
  [i \in DOMAIN ws |->
     IF ws[i].kind = "idle" /\ ws[i].status = "run"
     THEN [ws[i] EXCEPT !.emptySince =
             IF relevantRequests(ws[i], pending) # {} THEN None
             ELSE IF @ = None THEN now ELSE @]
     ELSE ws[i]]

\* Network.requestWillBeSent
handleRequestStart(requestId, url) ==
  LET networkRequest == NetworkRequest(requestId, url)
      pending == MapSet(pendingRequests, requestId, networkRequest)
      st == notifyCallbacks(networkRequest, waits, requestCallbacks)
  IN /\ pendingRequests' = pending
     /\ waits' = Observe(st.waits, pending)
     /\ requestCallbacks' = st.callbacks
     /\ started' = started + 1
     /\ UNCHANGED <<now, arb, pageVars, completedRequests, terminated>>

\* Network.responseReceived
handleResponseReceived(requestId, status) ==
  /\ IF requestId \in DOMAIN pendingRequests
     THEN pendingRequests' = [pendingRequests EXCEPT ![requestId].status = status]
     ELSE UNCHANGED pendingRequests
  /\ UNCHANGED <<now, arb, pageVars, completedRequests, requestCallbacks, waits, terminated, started>>

\* pushCompleted that drops the entry just pushed
pushCompleted_dropsNewest(list, request) ==
  LET pushed == Append(list, request)
  IN IF Len(pushed) > maxCompletedRequests
     THEN SubSeq(pushed, 1, Len(pushed) - 1) ELSE pushed

\* completedRequests.push(request); shift() when over the limit
pushCompleted(list, request) ==
  LET pushed == Append(list, request)
  IN IF Len(pushed) > maxCompletedRequests THEN Tail(pushed) ELSE pushed

terminate(requestId, failed) ==
  IF requestId \in DOMAIN pendingRequests
  THEN LET request == [pendingRequests[requestId] EXCEPT
                         !.completed = TRUE, !.failed = failed]
           pending == MapDelete(pendingRequests, requestId)
           st == notifyCallbacks(request, waits, requestCallbacks)
       IN /\ pendingRequests' = pending
          /\ completedRequests' = pushCompleted(completedRequests, request)
          /\ waits' = Observe(st.waits, pending)
          /\ requestCallbacks' = st.callbacks
          /\ terminated' = Append(terminated, request)
          /\ UNCHANGED <<now, arb, pageVars, started>>
  ELSE UNCHANGED vars

\* Network.loadingFinished
handleRequestFinished(requestId) == terminate(requestId, FALSE)

\* handleRequestFailed that does not set the failed flag
handleRequestFailed_notFlagged(requestId) == terminate(requestId, FALSE)

\* Network.loadingFailed
handleRequestFailed(requestId) == terminate(requestId, TRUE)

\* timers due at the same moment run in the order of their waits
FirstDue(i) ==
  /\ waits[i].next = now
  /\ \A j \in DOMAIN waits : j < i => waits[j].next # now

(***************************************************************************)
(* NetworkMonitor.waitForNetworkIdle                                       *)
(***************************************************************************)
checkNetworkIdle(w) ==
  IF now - w.start >= w.timeout
  THEN Resolve([w EXCEPT !.next = None], FALSE)
  ELSE IF relevantRequests(w, pendingRequests) = {}
       THEN IF now - w.lastActivityTime >= w.idleTime
            THEN Resolve([w EXCEPT !.next = None], TRUE)
            ELSE [w EXCEPT !.next = now + IdlePollInterval]
       ELSE [w EXCEPT !.lastActivityTime = now, !.next = now + IdlePollInterval]

\* the promise of a waitForNetworkIdle call: the first checkNetworkIdle() runs
\* inside the promise executor
networkIdlePromise(timeout, idleTime, ignoreUrls, onlyUrls) ==
  checkNetworkIdle(
    [NoWait EXCEPT !.kind = "idle", !.start = now, !.timeout = timeout,
       !.idleTime = idleTime, !.ignoreUrls = ignoreUrls, !.onlyUrls = onlyUrls,
       !.lastActivityTime = now])

waitForNetworkIdle(timeout, idleTime, ignoreUrls, onlyUrls) ==
  /\ waits' = Observe(Append(waits,
                 networkIdlePromise(timeout, idleTime, ignoreUrls, onlyUrls)),
               pendingRequests)
  /\ UNCHANGED <<now, arb, pageVars, netVars>>

\* setTimeout(checkNetworkIdle, 100) fires
pollNetworkIdle(i) ==
  /\ waits[i].kind = "idle"
  /\ waits[i].status = "run"
  /\ FirstDue(i)
  /\ waits' = [waits EXCEPT ![i] = checkNetworkIdle(@)]
  /\ UNCHANGED <<now, arb, pageVars, netVars>>

(***************************************************************************)
(* NetworkMonitor.waitForRequests                                          *)
(***************************************************************************)
\* the promise of a waitForRequests call: resolved at once by the completed
\* list, or left with its timer set (the listener is then registered)
requestsPromise(urlPatterns, timeout) ==
  LET matched == {p \in Range(urlPatterns) :
                    \E k \in DOMAIN completedRequests :
                       /\ Includes(completedRequests[k].url, p)
                       /\ completedRequests[k].completed}
      w == [NoWait EXCEPT !.kind = "urls", !.start = now, !.timeout = timeout,
              !.urlPatterns = urlPatterns, !.matchedRequests = matched]
  IN IF Cardinality(matched) = Len(urlPatterns)
     THEN Resolve(w, TRUE)
     ELSE [w EXCEPT !.next = now + timeout]

waitForRequests(urlPatterns, timeout) ==
  LET w == requestsPromise(urlPatterns, timeout)
  IN /\ waits' = Append(waits, w)
     /\ requestCallbacks' =
          IF w.status = "run"
          THEN onRequest(requestCallbacks, "waitForRequests", Len(waits) + 1)
          ELSE requestCallbacks
     /\ UNCHANGED <<now, arb, pageVars, pendingRequests, completedRequests, terminated, started>>

\* the setTimeout(..., timeout) of waitForRequests fires (also after the promise resolved)
timeoutRequests(i) ==
  /\ waits[i].kind = "urls"
  /\ FirstDue(i)
  /\ requestCallbacks' = removeRequestCallback(requestCallbacks, "waitForRequests")
  /\ waits' = [waits EXCEPT ![i] = Resolve([@ EXCEPT !.next = None], FALSE)]
  /\ UNCHANGED <<now, arb, pageVars, pendingRequests, completedRequests, terminated, started>>

(***************************************************************************)
(* Waits that poll the page.  A poll is one step: chrome.scripting         *)
(* .executeScript returns the page's answer, or throws when the page       *)
(* cannot be reached (ok = FALSE).  The first poll of a call is due at     *)
(* once; timers due at the same moment run in the order of their waits.    *)
(***************************************************************************)
ToLowerCase(c) ==
  CASE c = "L" -> "l" [] c = "D" -> "d" [] OTHER -> c

toLowerCase(str) == [k \in DOMAIN str |-> ToLowerCase(str[k])]

\* the page function of waitForLoadingTextToDisappear
textGone(textPatterns) ==
  ~ \E k \in DOMAIN textPatterns :
       Includes(toLowerCase(bodyText), toLowerCase(textPatterns[k]))

\* checkContent that lets twice the timeout pass
checkContent_lateTimeout(w, ok) ==
  LET v == [w EXCEPT !.next = None]
  IN IF ~ ok THEN Resolve([v EXCEPT !.errored = TRUE], FALSE)
     ELSE IF (w.selector \in domPresent) = w.shouldExist THEN Resolve(v, TRUE)
     ELSE IF now - w.start >= 2 * w.timeout THEN Resolve(v, FALSE)
     ELSE [w EXCEPT !.next = now + w.checkInterval]

\* DOMObserver.waitForContent / waitForContentRemoval: one run of checkContent / checkRemoval
checkContent(w, ok) ==
  LET v == [w EXCEPT !.next = None]
  IN IF ~ ok THEN Resolve([v EXCEPT !.errored = TRUE], FALSE)
     ELSE IF (w.selector \in domPresent) = w.shouldExist THEN Resolve(v, TRUE)
     ELSE IF now - w.start >= w.timeout THEN Resolve(v, FALSE)
     ELSE [w EXCEPT !.next = now + w.checkInterval]

\* LoadingDetector.pollForElement / waitForLoadingTextToDisappear: one iteration of the loop
pollOnce(w, ok) ==
  LET v == [w EXCEPT !.next = None]
      found == IF w.kind = "text" THEN textGone(w.textPatterns)
               ELSE (w.selector \in domPresent) = w.shouldExist
  IN IF ~ (now - w.start < w.timeout) THEN Resolve(v, FALSE)
     ELSE IF ~ ok THEN Resolve([v EXCEPT !.errored = TRUE], FALSE)
     ELSE IF found THEN Resolve(v, TRUE)
     ELSE [w EXCEPT !.next = now + w.checkInterval]

\* SPANavigator.getCurrentRoute: '' when the page call throws
getCurrentRoute(ok) == IF ok THEN pageRoute ELSE << >>

\* SPANavigator.waitForRouteChange: one run of checkRoute
checkRoute(w, ok) ==
  LET v == [w EXCEPT !.next = None]
      route == getCurrentRoute(ok)
      changed == IF w.expectedRoute # << >>
                 THEN Includes(route, w.expectedRoute) \/ route = w.expectedRoute
                 ELSE route # currentRoute
  IN IF changed
     THEN Resolve([v EXCEPT !.errored = ~ ok, !.routeAtDone = pageRoute], TRUE)
     ELSE IF now - w.start >= w.timeout
     THEN Resolve([v EXCEPT !.errored = ~ ok, !.routeAtDone = pageRoute], FALSE)
     ELSE [w EXCEPT !.next = now + w.checkInterval]

waitForContent(selector, timeout) ==
  [NoWait EXCEPT !.kind = "content", !.start = now, !.timeout = timeout, !.next = now,
     !.selector = selector, !.shouldExist = TRUE, !.checkInterval = 5]

waitForContentRemoval(selector, timeout) ==
  [NoWait EXCEPT !.kind = "removal", !.start = now, !.timeout = timeout, !.next = now,
     !.selector = selector, !.shouldExist = FALSE, !.checkInterval = 5]

pollForElement(selector, timeout, shouldExist) ==
  [NoWait EXCEPT !.kind = "poll", !.start = now, !.timeout = timeout, !.next = now,
     !.selector = selector, !.shouldExist = shouldExist, !.checkInterval = 2]

waitForLoadingTextToDisappear(patterns, timeout) ==
  [NoWait EXCEPT !.kind = "text", !.start = now, !.timeout = timeout, !.next = now,
     !.textPatterns = patterns, !.checkInterval = 5]

waitForRouteChange(expectedRoute, timeout) ==
  [NoWait EXCEPT !.kind = "route", !.start = now, !.timeout = timeout, !.next = now,
     !.expectedRoute = expectedRoute, !.checkInterval = 1, !.routeAtCall = pageRoute]

\* a due poll of wait i runs
pollPage(i, ok) ==
  /\ waits[i].kind \in {"content", "removal", "poll", "text", "route"}
  /\ waits[i].status = "run"
  /\ FirstDue(i)
  /\ waits' = [waits EXCEPT ![i] =
       CASE @.kind \in {"content", "removal"} -> checkContent(@, ok)
         [] @.kind \in {"poll", "text"} -> pollOnce(@, ok)
         [] OTHER -> checkRoute(@, ok)]
  /\ UNCHANGED <<now, arb, pageVars, netVars>>

(***************************************************************************)
(* The clock: time passes while a timer is pending and none is due         *)
(***************************************************************************)
NoTimerDue ==
  /\ \A i \in DOMAIN waits : waits[i].next = None \/ waits[i].next > now
  /\ \A j \in DOMAIN domT.loops : domT.loops[j] > now
  /\ \A j \in DOMAIN domT.debounceTimers : domT.debounceTimers[j].due > now
  /\ \A j \in DOMAIN spaT.loops : spaT.loops[j] > now

TimerPending ==
  \/ \E i \in DOMAIN waits : waits[i].next # None
  \/ domT.loops # << >>
  \/ domT.debounceTimers # << >>
  \/ spaT.loops # << >>

Tick ==
  /\ TimerPending
  /\ NoTimerDue
  /\ now' = now + 1
  /\ UNCHANGED <<arb, pageVars, netVars, waits>>

(***************************************************************************)
(* LoadingDetector.waitForContentLoaded                                    *)
(***************************************************************************)
Pattern(spinnerSelectors, contentSelectors, loadingTextPatterns, networkUrls, networkIdle, timeout) ==
  [spinnerSelectors |-> spinnerSelectors, contentSelectors |-> contentSelectors,
   loadingTextPatterns |-> loadingTextPatterns, networkUrls |-> networkUrls,
   networkIdle |-> networkIdle, timeout |-> timeout]

pleaseWait == <<"p", "l", "e", "a", "s", "e", " ", "w", "a", "i", "t">>
updating == <<"u", "p", "d", "a", "t", "i", "n", "g">>

\* canned patterns that rest on the network alone
cannedPattern_networkOnly(platform, timeout) ==
  Pattern(<< >>, << >>, << >>, << >>, TRUE, timeout)

\* the canned patterns of detectCloudStorageLoading
cannedPattern(platform, timeout) ==
  CASE platform = "google-drive" ->
         Pattern(<<"[role=\"progressbar\"]", ".gb_Ua", "[data-testid=\"loading\"]",
                   ".loading", ".spinner">>,
                 <<"[data-testid=\"file-row\"]", "[role=\"grid\"]", ".files-list",
                   "[aria-label*=\"file\"]">>,
                 <<loading, pleaseWait, updating>>, << >>, TRUE, timeout)
    [] platform = "dropbox" ->
         Pattern(<<"[data-testid=\"loading-spinner\"]", ".loading-spinner", ".loader">>,
                 <<"[data-testid=\"file-name\"]", ".file-row",
                   "[data-testid=\"virtualized-file-browser\"]">>,
                 <<loading, pleaseWait>>, << >>, TRUE, timeout)
    [] platform = "onedrive" ->
         Pattern(<<"[data-automationid=\"Spinner\"]", ".ms-Spinner", ".loading">>,
                 <<"[data-automationid=\"ListCell\"]", ".od-ItemTile", "[role=\"row\"]">>,
                 <<loading, pleaseWait>>, << >>, TRUE, timeout)
    [] OTHER ->
         Pattern(<<".loading", ".spinner", "[role=\"progressbar\"]", ".loader">>,
                 <<".file", ".folder", "[role=\"grid\"]", "[role=\"listbox\"]">>,
                 <<loading, pleaseWait>>, << >>, TRUE, timeout)

Platforms == {"google-drive", "dropbox", "onedrive", "unknown"}

\* detectPlatform: what the page function finds, 'unknown' when the page call throws
detectPlatform(found, ok) == IF ok THEN found ELSE "unknown"

waitForElementToAppear(selector, timeout) ==
  IF domObserver THEN waitForContent(selector, timeout)
  ELSE pollForElement(selector, timeout, TRUE)

waitForElementToDisappear(selector, timeout) ==
  IF domObserver THEN waitForContentRemoval(selector, timeout)
  ELSE pollForElement(selector, timeout, FALSE)

\* the promises array of waitForContentLoaded, by the name of each condition
promisesOf(patterns) ==
  (IF Len(patterns.spinnerSelectors) > 0 THEN <<"spinner">> ELSE << >>)
  \o (IF Len(patterns.contentSelectors) > 0 THEN <<"content">> ELSE << >>)
  \o (IF Len(patterns.loadingTextPatterns) > 0 THEN <<"text">> ELSE << >>)
  \o (IF Len(patterns.networkUrls) > 0 /\ networkMonitor THEN <<"urls">> ELSE << >>)
  \o (IF patterns.networkIdle /\ networkMonitor THEN <<"idle">> ELSE << >>)

\* the waits those promises start, in the order the calls are made
waitsOf(patterns) ==
  LET ps == promisesOf(patterns)
      has(t) == \E k \in DOMAIN ps : ps[k] = t
  IN [k \in DOMAIN patterns.spinnerSelectors |->
        [waitForElementToDisappear(patterns.spinnerSelectors[k], patterns.timeout)
           EXCEPT !.task = "spinner"]]
     \o [k \in DOMAIN patterns.contentSelectors |->
        [waitForElementToAppear(patterns.contentSelectors[k], patterns.timeout \div 2)
           EXCEPT !.task = "content"]]
     \o (IF has("text")
         THEN <<[waitForLoadingTextToDisappear(patterns.loadingTextPatterns,
                                               patterns.timeout)
                   EXCEPT !.task = "text"]>>
         ELSE << >>)
     \o (IF has("urls")
         THEN <<[requestsPromise(patterns.networkUrls, patterns.timeout)
                   EXCEPT !.task = "urls"]>>
         ELSE << >>)
     \o (IF has("idle")
         THEN <<[networkIdlePromise(patterns.timeout, IdleTimeDefault, << >>, << >>)
                   EXCEPT !.task = "idle"]>>
         ELSE << >>)

TaskWaits(t) == {i \in DOMAIN waits : waits[i].task = t}

\* Promise.all settles when all have settled (none rejects), Promise.race with the first
Settled(t) ==
  IF t = "content"
  THEN \E i \in TaskWaits(t) : waits[i].status # "run"
  ELSE \A i \in TaskWaits(t) : waits[i].status # "run"

\* results.every(result => result)
waitForSpinnersToDisappear == \A i \in TaskWaits("spinner") : waits[i].status = "true"

\* await Promise.race(promises); return true  (no waitForElementToAppear rejects)
waitForContentToAppear == TRUE

taskResult(t) ==
  CASE t = "spinner" -> waitForSpinnersToDisappear
    [] t = "content" -> waitForContentToAppear
    [] OTHER -> \A i \in TaskWaits(t) : waits[i].status = "true"

\* awaitResult with some() in place of every()
awaitResult_any(promises) ==
  \E k \in DOMAIN promises : taskResult(promises[k])

\* awaitResult that does not look at a single promise's value
awaitResult_ignoresSingle(promises) ==
  IF Len(promises) = 1 THEN TRUE
  ELSE \A k \in DOMAIN promises : taskResult(promises[k])

\* the value waitForContentLoaded returns once its promises have settled
awaitResult(promises) ==
  IF Len(promises) = 1 THEN taskResult(promises[1])
  ELSE \A k \in DOMAIN promises : taskResult(promises[k])

\* the body of waitForContentLoaded up to its await
enter(patterns, call) ==
  LET ps == promisesOf(patterns)
      new == waitsOf(patterns)
      all == waits \o new
      urlsAt == CHOOSE i \in DOMAIN all : i > Len(waits) /\ all[i].kind = "urls"
      registers == \E i \in DOMAIN all :
                      i > Len(waits) /\ all[i].kind = "urls" /\ all[i].status = "run"
  IN /\ waits' = Observe(all, pendingRequests)
     /\ requestCallbacks' =
          IF registers THEN onRequest(requestCallbacks, "waitForRequests", urlsAt)
          ELSE requestCallbacks
     /\ arb' = [call EXCEPT !.pc = IF ps = << >> THEN "detect" ELSE "waiting",
                            !.promises = ps, !.timeout = patterns.timeout]
     /\ UNCHANGED <<now, pageVars, pendingRequests, completedRequests, terminated, started>>

waitForContentLoaded(patterns) ==
  /\ arb.pc = "idle"
  /\ enter(patterns, [arb EXCEPT !.start = now])

\* no promise was built: detectCloudStorageLoading awaits detectPlatform and
\* calls waitForContentLoaded with the canned pattern
detectCloudStorageLoading(found, ok) ==
  /\ arb.pc = "detect"
  /\ enter(cannedPattern(detectPlatform(found, ok), arb.timeout),
           [arb EXCEPT !.platform = detectPlatform(found, ok), !.depth = @ + 1])

\* the continuation of waitForContentLoaded run when the first promise settles
ArbiterReady_race ==
  /\ arb.pc = "waiting"
  /\ \E k \in DOMAIN arb.promises : Settled(arb.promises[k])

\* the awaited promises have settled: the continuation runs before any timer
ArbiterReady ==
  /\ arb.pc = "waiting"
  /\ \A k \in DOMAIN arb.promises : Settled(arb.promises[k])

waitForContentLoadedReturn ==
  /\ ArbiterReady
  /\ arb' = [arb EXCEPT !.pc = "done", !.result = awaitResult(arb.promises),
                        !.doneAt = now]
  /\ UNCHANGED <<now, pageVars, netVars, waits>>

(***************************************************************************)
(* The trackers' lifecycle: startObserving / stopObserving of DOMObserver, *)
(* startMonitoring / stopMonitoring of NetworkMonitor and of SPANavigator. *)
(* A call runs up to its first await when it is made; each later step is   *)
(* the completion of the chrome call it awaits (ok = FALSE: that call      *)
(* threw).                                                                 *)
(***************************************************************************)
Trackers == <<"dom", "net", "spa">>
CallbackIds == {"s1", "s2"}
DebounceInputs == {0, 2}
Origin == <<"o">>
Fragment == "#"

\* DOMObserver after construction, with the page-side objects it installs
NewDOMObserver ==
  [isObserving |-> FALSE,
   observer |-> FALSE,          \* window.navibrowserMutationObserver is observing
   scriptObservers |-> 0,       \* the scriptObserver objects observing document.head
   messageListener |-> FALSE,   \* window.navibrowserMessageListener is listening
   latestMutations |-> << >>,   \* window.navibrowserLatestMutations (<< >>: null)
   loops |-> << >>,             \* the pollMutations loops running: time of the next poll
   callbacks |-> << >>,         \* callbacks, in insertion order
   debounceTimers |-> << >>]    \* debounceTimers, with what each timer will deliver

\* NetworkMonitor after construction, with the debugger session of the tab
NewNetworkMonitor ==
  [isMonitoring |-> FALSE,
   attached |-> FALSE,          \* chrome.debugger is attached to the tab
   enabled |-> FALSE,           \* Network.enable is in effect
   listeners |-> 0]             \* chrome.debugger.onEvent listeners of this monitor

\* SPANavigator after construction, with the page-side objects it installs
NewSPANavigator ==
  [isMonitoring |-> FALSE,
   wrapDepth |-> 0,             \* wrappers around history.pushState / replaceState
   saved |-> None,              \* navibrowserOriginalPushState: wrappers around what it holds
   routeListener |-> FALSE,     \* window.navibrowserRouteListener is defined
   lastRoute |-> << >>,         \* window.navibrowserLastRoute
   loadingDetector |-> TRUE,    \* was it built with a LoadingDetector
   popListeners |-> 0,          \* popstate listeners added by the navigator
   hashListeners |-> 0,         \* hashchange listeners added by the navigator
   bufferDefined |-> FALSE,     \* window.navibrowserRouteChanges is defined
   buffer |-> << >>,            \* window.navibrowserRouteChanges
   loops |-> << >>,             \* the pollRouteChanges loops running: time of the next poll
   tabListeners |-> 0,          \* chrome.tabs.onUpdated listeners of this navigator
   navigationHistory |-> << >>,
   routeChangeCallbacks |-> << >>]

\* NetworkMonitor after a startMonitoring() that succeeded
StartedNetworkMonitor ==
  [isMonitoring |-> TRUE, attached |-> TRUE, enabled |-> TRUE, listeners |-> 1]

\* DynamicStateManager after construction; its domObserver and networkMonitor
\* are the ones the LoadingDetector is built with
NewDynamicStateManager ==
  [isInitialized |-> FALSE,
   spaNavigator |-> TRUE,       \* enableSPANavigator
   ops |-> << >>]               \* the initialize() / cleanup() calls made

NoTrace ==
  [startCalls |-> [t \in Range(Trackers) |-> 0],
   stopCalls |-> [t \in Range(Trackers) |-> 0],
   invoked |-> << >>,           \* the subscribers called, in order
   handled |-> << >>,           \* the events handleRouteChange was called with
   transitions |-> << >>,       \* the page's route transitions while monitoring
   batches |-> << >>,           \* the mutation batches posted in the page
   flushed |-> [id \in CallbackIds |-> 0],  \* batches posted at a subscriber's last call
   removed |-> 0]               \* the removeCallback calls made

isActive(tracker) ==
  CASE tracker = "dom" -> domT.isObserving
    [] tracker = "net" -> netT.isMonitoring
    [] tracker = "spa" -> spaT.isMonitoring

\* the first await of a call that passes its guard
FirstAwait(tracker, op) ==
  CASE tracker = "dom" /\ op = "start" -> "install"
    [] tracker = "dom" /\ op = "stop" -> "remove"
    [] tracker = "net" /\ op = "start" -> "attach"
    [] tracker = "net" /\ op = "stop" -> "disable"
    [] tracker = "spa" /\ op = "start" -> "route"
    [] tracker = "spa" /\ op = "stop" -> "remove"

\* a call up to its first await: start returns at once when the tracker is
\* active, stop when it is not
begin(tracker, op, owner) ==
  LET returns == IF op = "start" THEN isActive(tracker) ELSE ~ isActive(tracker)
  IN [tracker |-> tracker, op |-> op, owner |-> owner, guarded |-> returns,
      threw |-> FALSE,         \* history: a chrome call of this call threw
      pc |-> IF returns THEN "done" ELSE FirstAwait(tracker, op),
      outcome |-> IF returns THEN "resolved" ELSE "pending"]

\* what no step of a start or stop call writes
restVars == <<now, arb, domPresent, bodyText, pageRoute, pageOk, domObserver, networkMonitor,
              completedRequests, terminated, started, waits, mgr, trace>>

settle(call, outcome) == [call EXCEPT !.pc = "done", !.outcome = outcome]

\* the catch block of a stop: the error is logged, the call returns
caught(call) == [call EXCEPT !.pc = "done", !.outcome = "resolved", !.threw = TRUE]

count(tr, field, tracker) ==
  [tr EXCEPT ![field] = [@ EXCEPT ![tracker] = @ + 1]]

\* DOMObserver.startObserving / stopObserving, one step of call k
domStep(k, ok) ==
  LET c == calls[k]
  IN /\ c.tracker = "dom"
     /\ c.outcome = "pending"
     /\ CASE c.pc = "install" ->
               \* the page function creates the observers; then setupMessageListener
               IF ok
               THEN /\ domT' = [domT EXCEPT !.observer = TRUE, !.scriptObservers = @ + 1]
                    /\ calls' = [calls EXCEPT ![k].pc = "listen"]
               ELSE /\ domT' = domT
                    /\ calls' = [calls EXCEPT ![k] = settle(c, "rejected")]
          [] c.pc = "listen" ->
               \* the page function installs the message listener; then
               \* startMutationPolling(), whose first pollMutations() looks at
               \* isObserving; then isObserving = true
               IF ok
               THEN /\ domT' = [domT EXCEPT
                          !.messageListener = TRUE,
                          !.loops = IF domT.isObserving THEN Append(@, now) ELSE @,
                          !.isObserving = TRUE]
                    /\ calls' = [calls EXCEPT ![k] = settle(c, "resolved")]
               ELSE /\ domT' = domT
                    /\ calls' = [calls EXCEPT ![k] = settle(c, "rejected")]
          [] c.pc = "remove" ->
               \* the page function disconnects the observer; the timers are
               \* cleared; a throw is caught and logged
               /\ domT' = IF ok
                          THEN [domT EXCEPT !.observer = FALSE, !.debounceTimers = << >>,
                                            !.isObserving = FALSE]
                          ELSE domT
               /\ calls' = [calls EXCEPT ![k] = IF ok THEN settle(c, "resolved") ELSE caught(c)]
     /\ UNCHANGED <<netT, spaT, currentRoute, pendingRequests, requestCallbacks, restVars>>

\* NetworkMonitor.startMonitoring / stopMonitoring, one step of call k
netStep(k, ok) ==
  LET c == calls[k]
  IN /\ c.tracker = "net"
     /\ c.outcome = "pending"
     /\ CASE c.pc = "attach" ->
               \* chrome.debugger.attach throws when a debugger is attached already
               IF ok /\ ~ netT.attached
               THEN /\ netT' = [netT EXCEPT !.attached = TRUE]
                    /\ calls' = [calls EXCEPT ![k].pc = "enable"]
                    /\ UNCHANGED <<pendingRequests, requestCallbacks>>
               ELSE /\ netT' = netT
                    /\ calls' = [calls EXCEPT ![k] = settle(c, "rejected")]
                    /\ UNCHANGED <<pendingRequests, requestCallbacks>>
          [] c.pc = "enable" ->
               IF ok /\ netT.attached
               THEN /\ netT' = [netT EXCEPT !.enabled = TRUE, !.listeners = @ + 1,
                                            !.isMonitoring = TRUE]
                    /\ calls' = [calls EXCEPT ![k] = settle(c, "resolved")]
                    /\ UNCHANGED <<pendingRequests, requestCallbacks>>
               ELSE /\ netT' = netT
                    /\ calls' = [calls EXCEPT ![k] = settle(c, "rejected")]
                    /\ UNCHANGED <<pendingRequests, requestCallbacks>>
          [] c.pc = "disable" ->
               IF ok /\ netT.attached
               THEN /\ netT' = [netT EXCEPT !.enabled = FALSE]
                    /\ calls' = [calls EXCEPT ![k].pc = "detach"]
                    /\ UNCHANGED <<pendingRequests, requestCallbacks>>
               ELSE /\ netT' = netT
                    /\ calls' = [calls EXCEPT ![k] = caught(c)]
                    /\ UNCHANGED <<pendingRequests, requestCallbacks>>
          [] c.pc = "detach" ->
               \* removeListener is given a new bound function: no listener goes
               IF ok /\ netT.attached
               THEN /\ netT' = [netT EXCEPT !.attached = FALSE, !.isMonitoring = FALSE]
                    /\ pendingRequests' = EmptyMap
                    /\ requestCallbacks' = << >>
                    /\ calls' = [calls EXCEPT ![k] = settle(c, "resolved")]
               ELSE /\ netT' = netT
                    /\ calls' = [calls EXCEPT ![k] = caught(c)]
                    /\ UNCHANGED <<pendingRequests, requestCallbacks>>
     /\ UNCHANGED <<domT, spaT, currentRoute, restVars>>

\* SPANavigator.startMonitoring / stopMonitoring, one step of call k
spaStep(k, ok) ==
  LET c == calls[k]
  IN /\ c.tracker = "spa"
     /\ c.outcome = "pending"
     /\ CASE c.pc = "route" ->
               \* this.currentRoute = await this.getCurrentRoute()
               /\ currentRoute' = getCurrentRoute(ok)
               /\ spaT' = spaT
               /\ calls' = [calls EXCEPT ![k].pc = "setup"]
          [] c.pc = "setup" ->
               \* the page function of setupRouteMonitoring; then
               \* startRouteChangePolling(), whose first pollRouteChanges() looks
               \* at isMonitoring; then setupTabListeners(); isMonitoring = true
               IF ok
               THEN /\ spaT' = [spaT EXCEPT
                          !.bufferDefined = TRUE, !.buffer = << >>,
                          !.saved = spaT.wrapDepth, !.wrapDepth = @ + 1,
                          !.routeListener = TRUE, !.popListeners = @ + 1,
                          !.lastRoute = pageRoute,
                          !.hashListeners = @ + 1,
                          !.loops = IF spaT.isMonitoring THEN Append(@, now) ELSE @,
                          !.tabListeners = @ + 1,
                          !.isMonitoring = TRUE]
                    /\ calls' = [calls EXCEPT ![k] = settle(c, "resolved")]
                    /\ UNCHANGED currentRoute
               ELSE /\ spaT' = spaT
                    /\ calls' = [calls EXCEPT ![k] = settle(c, "rejected")]
                    /\ UNCHANGED currentRoute
          [] c.pc = "remove" ->
               \* the page function removes the popstate listener and restores
               \* the saved entry points; a throw is caught and logged
               /\ spaT' = IF ok
                          THEN [spaT EXCEPT
                                  !.popListeners = IF spaT.routeListener THEN @ - 1 ELSE @,
                                  !.routeListener = FALSE,
                                  !.wrapDepth = IF spaT.saved # None THEN spaT.saved ELSE @,
                                  !.saved = None,
                                  !.bufferDefined = FALSE, !.buffer = << >>,
                                  !.isMonitoring = FALSE,
                                  !.routeChangeCallbacks = << >>]
                          ELSE spaT
               /\ calls' = [calls EXCEPT ![k] = IF ok THEN settle(c, "resolved") ELSE caught(c)]
               /\ UNCHANGED currentRoute
     /\ UNCHANGED <<domT, netT, pendingRequests, requestCallbacks, restVars>>

\* startObserving() / stopObserving() / startMonitoring() / stopMonitoring()
\* called on a tracker
trackerCall(tracker, op) ==
  /\ calls' = Append(calls, begin(tracker, op, 0))
  /\ trace' = count(trace, IF op = "start" THEN "startCalls" ELSE "stopCalls", tracker)
  /\ UNCHANGED <<now, arb, domPresent, bodyText, pageRoute, pageOk, currentRoute,
                 domObserver, networkMonitor, netVars, waits, domT, netT, spaT, mgr>>

(***************************************************************************)
(* DOMObserver: subscribers, the page-side relay of mutation batches, the  *)
(* polling loop and the debounce timers                                    *)
(***************************************************************************)
Last(s) == s[Len(s)]

RemoveAt(s, j) == SubSeq(s, 1, j - 1) \o SubSeq(s, j + 1, Len(s))

\* Map.set: a known key keeps its place, a new one goes last
MapPut(entries, entry) ==
  IF \E k \in DOMAIN entries : entries[k].id = entry.id
  THEN [k \in DOMAIN entries |-> IF entries[k].id = entry.id THEN entry ELSE entries[k]]
  ELSE Append(entries, entry)

\* what a subscriber was called with (history)
Invocation(tracker, id, payload, expected, threw) ==
  [tracker |-> tracker, id |-> id, payload |-> payload, expected |-> expected,
   threw |-> threw, at |-> now]

\* DOMObserver.onContentChange; throws: the callback given is one that throws
onContentChange(id, throws, debounceMs) ==
  /\ domT' = [domT EXCEPT !.callbacks =
                MapPut(@, [id |-> id, throws |-> throws,
                           debounceMs |-> IF debounceMs = 0 THEN DebounceDefault
                                          ELSE debounceMs])]
  /\ trace' = [trace EXCEPT !.flushed = [@ EXCEPT ![id] = Len(trace.batches)]]
  /\ UNCHANGED <<now, arb, domPresent, bodyText, pageRoute, pageOk, currentRoute,
                 domObserver, networkMonitor, netVars, waits, netT, spaT, calls, mgr>>

\* the page: the MutationObserver callback posts a batch, the message listener
\* stores it in window.navibrowserLatestMutations
mutationBatch(mutations) ==
  /\ domT.observer
  /\ domT.messageListener
  /\ domT' = [domT EXCEPT !.latestMutations = mutations]
  /\ trace' = [trace EXCEPT !.batches = Append(@, [mutations |-> mutations, at |-> now])]
  /\ UNCHANGED <<now, arb, domPresent, bodyText, pageRoute, pageOk, currentRoute,
                 domObserver, networkMonitor, netVars, waits, netT, spaT, calls, mgr>>

\* DOMObserver.processMutations: every subscriber's timer is replaced by one
\* that will deliver these mutations
processMutations(timers, mutations) ==
  LET ids == {domT.callbacks[k].id : k \in DOMAIN domT.callbacks}
  IN SelectSeq(timers, LAMBDA t : t.id \notin ids)
       \o [k \in DOMAIN domT.callbacks |->
             [id |-> domT.callbacks[k].id,
              throws |-> domT.callbacks[k].throws,
              due |-> now + domT.callbacks[k].debounceMs,
              payload |-> mutations]]

\* pollMutations of loop j, due now; the debounce timers due now were set
\* before this poll was scheduled and run first
pollMutations(j, ok) ==
  /\ domT.loops[j] <= now
  /\ \A k \in DOMAIN domT.debounceTimers : domT.debounceTimers[k].due > now
  /\ IF ~ domT.isObserving
     THEN domT' = [domT EXCEPT !.loops = RemoveAt(@, j)]
     ELSE IF ok
     THEN domT' = [domT EXCEPT
                     !.latestMutations = << >>,
                     !.debounceTimers = IF domT.latestMutations # << >>
                                        THEN processMutations(@, domT.latestMutations)
                                        ELSE @,
                     !.loops = [@ EXCEPT ![j] = now + RelayInterval]]
     ELSE domT' = [domT EXCEPT !.loops = [@ EXCEPT ![j] = now + RelayInterval]]
  /\ UNCHANGED <<now, arb, domPresent, bodyText, pageRoute, pageOk, currentRoute,
                 domObserver, networkMonitor, netVars, waits, netT, spaT, calls, mgr,
                 trace>>

\* the debounce timer j runs: the callback is called, an error it throws is
\* caught, the timer is deleted; timers due at the same time run in the order
\* in which they were set
debounceFire(j) ==
  LET t == domT.debounceTimers[j]
  IN /\ t.due <= now
     /\ \A i \in 1 .. (j - 1) : domT.debounceTimers[i].due > now
     /\ domT' = [domT EXCEPT !.debounceTimers = RemoveAt(@, j)]
     /\ trace' = [trace EXCEPT
           !.invoked = Append(@, Invocation("dom", t.id, t.payload,
                                  SubSeq(trace.batches, trace.flushed[t.id] + 1,
                                         Len(trace.batches)),
                                  t.throws)),
           !.flushed = [@ EXCEPT ![t.id] = Len(trace.batches)]]
     /\ UNCHANGED <<now, arb, domPresent, bodyText, pageRoute, pageOk, currentRoute,
                    domObserver, networkMonitor, netVars, waits, netT, spaT, calls, mgr>>

\* removeCallback that leaves the pending timer of the id in place
removeCallback_keepsTimer(id) ==
  /\ domT' = [domT EXCEPT !.callbacks = SelectSeq(@, LAMBDA e : e.id # id)]
  /\ trace' = [trace EXCEPT !.removed = @ + 1]
  /\ UNCHANGED <<now, arb, domPresent, bodyText, pageRoute, pageOk, currentRoute,
                 domObserver, networkMonitor, netVars, waits, netT, spaT, calls, mgr>>

\* DOMObserver.removeCallback: the callback and its pending timer go
removeCallback(id) ==
  /\ domT' = [domT EXCEPT
        !.callbacks = SelectSeq(@, LAMBDA e : e.id # id),
        !.debounceTimers = SelectSeq(@, LAMBDA t : t.id # id)]
  /\ trace' = [trace EXCEPT !.removed = @ + 1]
  /\ UNCHANGED <<now, arb, domPresent, bodyText, pageRoute, pageOk, currentRoute,
                 domObserver, networkMonitor, netVars, waits, netT, spaT, calls, mgr>>

(***************************************************************************)
(* SPANavigator: subscribers, the page-side buffer of route changes, the   *)
(* polling loop, the tab listener and handleRouteChange                    *)
(***************************************************************************)
\* event.oldURL / event.newURL: the whole URL of the page, origin included
Url(route) == Origin \o route

RouteChangeEvent(oldRoute, newRoute, method) ==
  [oldRoute |-> oldRoute, newRoute |-> newRoute, timestamp |-> now, method |-> method]

\* SPANavigator.onRouteChange; throws: the callback given is one that throws
onRouteChange(id, throws) ==
  /\ spaT' = [spaT EXCEPT !.routeChangeCallbacks = MapPut(@, [id |-> id, throws |-> throws])]
  /\ UNCHANGED <<now, arb, domPresent, bodyText, pageRoute, pageOk, currentRoute,
                 domObserver, networkMonitor, netVars, waits, domT, netT, calls, mgr,
                 trace>>

\* NetworkMonitor.onRequest called by a subscriber; throws: the callback throws
onRequestSubscriber(id, throws) ==
  /\ requestCallbacks' = MapPut(requestCallbacks,
                                [id |-> id, listener |-> 0, throws |-> throws, seen |-> << >>])
  /\ UNCHANGED <<now, arb, pageVars, pendingRequests, completedRequests, terminated,
                 started, waits>>

\* navigationHistory.push(event) that shifts before the limit is passed
pushHistory_early(list, event) ==
  IF Len(list) + 1 >= RouteHistoryLimit THEN Tail(Append(list, event)) ELSE Append(list, event)

\* navigationHistory.push(event), with the oldest entry shifted out past the limit
pushHistory(list, event) ==
  IF Len(list) + 1 > RouteHistoryLimit THEN Tail(Append(list, event)) ELSE Append(list, event)

\* SPANavigator.handleRouteChange on st = [currentRoute, navigationHistory, invoked]
handleRouteChange(st, event) ==
  [currentRoute |-> event.newRoute,
   navigationHistory |-> pushHistory(st.navigationHistory, event),
   invoked |-> st.invoked \o
      [k \in DOMAIN spaT.routeChangeCallbacks |->
         Invocation("spa", spaT.routeChangeCallbacks[k].id, event, << >>,
                    spaT.routeChangeCallbacks[k].throws)]]

\* changes.forEach(change => this.handleRouteChange(change))
handleRouteChanges(st, events) ==
  LET H[k \in 0 .. Len(events)] ==
        IF k = 0 THEN st ELSE handleRouteChange(H[k - 1], events[k])
  IN H[Len(events)]

Handled(events) ==
  LET st == handleRouteChanges([currentRoute |-> currentRoute,
                                navigationHistory |-> spaT.navigationHistory,
                                invoked |-> trace.invoked], events)
  IN /\ currentRoute' = st.currentRoute
     /\ trace' = [trace EXCEPT !.invoked = st.invoked,
                               !.handled = @ \o events]
     /\ UNCHANGED <<arb, domPresent, bodyText, pageOk, domObserver, networkMonitor,
                    netVars, waits, domT, netT, calls, mgr>>

\* history.pushState(..., route) in the page: the native entry point, or the
\* wrapper, which calls window.navibrowserOriginalPushState; when that is
\* deleted or is a wrapper itself the call throws
pushStatePage(route) ==
  IF spaT.wrapDepth = 0
  THEN [threw |-> FALSE, pageRoute |-> route, buffer |-> spaT.buffer,
        lastRoute |-> spaT.lastRoute, method |-> "native"]
  ELSE IF spaT.saved # 0
  THEN [threw |-> TRUE, pageRoute |-> pageRoute, buffer |-> spaT.buffer,
        lastRoute |-> spaT.lastRoute, method |-> "native"]
  ELSE [threw |-> FALSE, pageRoute |-> route,
        buffer |-> Append(spaT.buffer, RouteChangeEvent(pageRoute, route, "pushState")),
        lastRoute |-> spaT.lastRoute, method |-> "pushState"]

\* the page calls history.pushState(..., route)
pushState(route) ==
  LET page == pushStatePage(route)
  IN /\ pageRoute' = page.pageRoute
     /\ spaT' = [spaT EXCEPT !.buffer = page.buffer]
     /\ trace' = [trace EXCEPT !.transitions =
                    IF spaT.isMonitoring /\ page.method = "pushState"
                    THEN Append(@, "pushState") ELSE @]
     /\ UNCHANGED <<now, arb, domPresent, bodyText, pageOk, currentRoute, domObserver,
                    networkMonitor, netVars, waits, domT, netT, calls, mgr>>

\* the page's location hash changes: every hashchange listener added so far
\* pushes to window.navibrowserRouteChanges, when that is defined
hashChange(route) ==
  /\ pageRoute' = route
  /\ spaT' = [spaT EXCEPT !.buffer =
        IF spaT.bufferDefined
        THEN @ \o [k \in 1 .. spaT.hashListeners |->
                     RouteChangeEvent(Url(pageRoute), Url(route), "hashchange")]
        ELSE @]
  /\ trace' = [trace EXCEPT !.transitions =
                 IF spaT.isMonitoring THEN Append(@, "hashchange") ELSE @]
  /\ UNCHANGED <<now, arb, domPresent, bodyText, pageOk, currentRoute, domObserver,
                 networkMonitor, netVars, waits, domT, netT, calls, mgr>>

\* pollRouteChanges of loop j, due now
pollRouteChanges(j, ok) ==
  /\ spaT.loops[j] <= now
  /\ IF ~ spaT.isMonitoring
     THEN /\ spaT' = [spaT EXCEPT !.loops = RemoveAt(@, j)]
          /\ UNCHANGED <<currentRoute, trace, arb, domPresent, bodyText, pageOk,
                         domObserver, networkMonitor, netVars, waits, domT, netT, calls,
                         mgr>>
     ELSE IF ok
     THEN /\ Handled(spaT.buffer)
          /\ spaT' = [spaT EXCEPT
                        !.bufferDefined = TRUE, !.buffer = << >>,
                        !.navigationHistory =
                           handleRouteChanges([currentRoute |-> currentRoute,
                                               navigationHistory |-> @,
                                               invoked |-> << >>],
                                              spaT.buffer).navigationHistory,
                        !.loops = [@ EXCEPT ![j] = now + RelayInterval]]
     ELSE /\ spaT' = [spaT EXCEPT !.loops = [@ EXCEPT ![j] = now + RelayInterval]]
          /\ UNCHANGED <<currentRoute, trace, arb, domPresent, bodyText, pageOk,
                         domObserver, networkMonitor, netVars, waits, domT, netT, calls,
                         mgr>>
  /\ UNCHANGED <<now, pageRoute>>

\* chrome.tabs.onUpdated reports a new URL of the tab: every listener added so
\* far calls handleTabUrlChange
tabUpdated(url) ==
  LET events == [k \in 1 .. spaT.tabListeners |->
                   RouteChangeEvent(IF k = 1 THEN currentRoute ELSE url, url, "navigation")]
  IN /\ spaT.tabListeners > 0
     /\ Handled(events)
     /\ spaT' = [spaT EXCEPT !.navigationHistory =
                   handleRouteChanges([currentRoute |-> currentRoute,
                                       navigationHistory |-> @,
                                       invoked |-> << >>], events).navigationHistory]
     /\ UNCHANGED <<now, pageRoute>>

(***************************************************************************)
(* SPANavigator.navigateToRoute                                            *)
(***************************************************************************)
\* pathname + search of a route: what comes before the hash
PathOf(route) ==
  IF \E i \in DOMAIN route : route[i] = Fragment
  THEN SubSeq(route, 1, (CHOOSE i \in DOMAIN route :
                            /\ route[i] = Fragment
                            /\ \A j \in 1 .. i - 1 : route[j] # Fragment) - 1)
  ELSE route

\* detectNavigationMethod: 'pushState' unless the page's hash includes '#/'
detectNavigationMethod(ok) ==
  IF ok /\ Includes(pageRoute, <<Fragment, "/">>) THEN "hash" ELSE "pushState"

\* the popstate listeners added so far run
popstateDispatched(page) ==
  [page EXCEPT
     !.buffer = IF spaT.bufferDefined
                THEN @ \o [k \in 1 .. spaT.popListeners |->
                             RouteChangeEvent(IF k = 1 THEN spaT.lastRoute ELSE page.pageRoute,
                                              page.pageRoute, "popstate")]
                ELSE @,
     !.lastRoute = IF spaT.bufferDefined /\ spaT.popListeners > 0
                   THEN page.pageRoute ELSE @]

\* the page function of performNavigation
performNavigation(route, method) ==
  IF method = "hash"
  THEN LET target == PathOf(pageRoute) \o
                       (IF Head(route) = Fragment THEN route ELSE <<Fragment>> \o route)
       IN [threw |-> FALSE, pageRoute |-> target, lastRoute |-> spaT.lastRoute,
           method |-> "hashchange",
           buffer |-> IF spaT.bufferDefined
                      THEN spaT.buffer \o [k \in 1 .. spaT.hashListeners |->
                             RouteChangeEvent(Url(pageRoute), Url(target), "hashchange")]
                      ELSE spaT.buffer]
  ELSE LET pushed == pushStatePage(route)
       IN IF pushed.threw THEN pushed ELSE popstateDispatched(pushed)

\* navigateToRoute(route, {waitForLoad, timeout, expectedContent}) up to its first await
navigateToRoute(route, waitForLoad, timeout, expectedContent) ==
  /\ calls' = Append(calls,
        [tracker |-> "spa", op |-> "navigate", owner |-> 0, guarded |-> FALSE,
         pc |-> "detect", outcome |-> "pending",
         route |-> route, waitForLoad |-> waitForLoad, timeout |-> timeout,
         expectedContent |-> expectedContent, method |-> "", routeWait |-> 0,
         routeChanged |-> FALSE, contentLoaded |-> FALSE, result |-> FALSE])
  /\ UNCHANGED <<now, arb, domPresent, bodyText, pageRoute, pageOk, currentRoute,
                 domObserver, networkMonitor, netVars, waits, domT, netT, spaT, mgr,
                 trace>>

return(call, result) == [call EXCEPT !.pc = "done", !.outcome = "resolved", !.result = result]

\* the pattern navigateToRoute gives to waitForContentLoaded
contentPattern(call) ==
  Pattern(<< >>, call.expectedContent, << >>, << >>, TRUE, call.timeout \div 2)

\* navigateToRoute, one step of call k
navStep(k, ok) ==
  LET c == calls[k]
      page == performNavigation(c.route, c.method)
  IN /\ c.op = "navigate"
     /\ c.outcome = "pending"
     /\ CASE c.pc = "detect" ->
               /\ calls' = [calls EXCEPT ![k].method = detectNavigationMethod(ok),
                                         ![k].pc = "perform"]
               /\ UNCHANGED <<pageRoute, spaT, trace, waits>>
          [] c.pc = "perform" ->
               IF ~ ok \/ page.threw
               THEN /\ calls' = [calls EXCEPT ![k] = return(c, FALSE)]
                    /\ UNCHANGED <<pageRoute, spaT, trace, waits>>
               ELSE /\ pageRoute' = page.pageRoute
                    /\ spaT' = [spaT EXCEPT !.buffer = page.buffer,
                                            !.lastRoute = page.lastRoute]
                    /\ trace' = [trace EXCEPT !.transitions =
                                   IF spaT.isMonitoring THEN Append(@, page.method) ELSE @]
                    /\ IF c.waitForLoad
                       THEN /\ waits' = Append(waits,
                                   waitForRouteChange(c.route, c.timeout \div 2))
                            /\ calls' = [calls EXCEPT ![k].pc = "route",
                                                      ![k].routeWait = Len(waits) + 1]
                       ELSE /\ calls' = [calls EXCEPT ![k] = return(c, TRUE)]
                            /\ UNCHANGED waits
          [] c.pc = "route" ->
               /\ waits[c.routeWait].status # "run"
               /\ calls' = [calls EXCEPT ![k] =
                    IF spaT.loadingDetector
                    THEN [c EXCEPT !.pc = "content",
                                   !.routeChanged = waits[c.routeWait].status = "true"]
                    ELSE [return(c, TRUE) EXCEPT
                                   !.routeChanged = waits[c.routeWait].status = "true"]]
               /\ UNCHANGED <<pageRoute, spaT, trace, waits>>
          [] c.pc = "content" ->
               /\ arb.pc = "done"
               /\ calls' = [calls EXCEPT ![k] =
                              [return(c, arb.result) EXCEPT !.contentLoaded = arb.result]]
               /\ UNCHANGED <<pageRoute, spaT, trace, waits>>
     /\ UNCHANGED <<now, arb, domPresent, bodyText, pageOk, currentRoute, domObserver,
                    networkMonitor, netVars, domT, netT, mgr>>

\* navigateToRoute calls this.loadingDetector.waitForContentLoaded
navCallsContent(k) ==
  /\ calls[k].op = "navigate"
  /\ calls[k].pc = "content"
  /\ waitForContentLoaded(contentPattern(calls[k]))

\* a continuation of navigateToRoute is ready to run
NavReady ==
  \E k \in DOMAIN calls :
     /\ calls[k].op = "navigate"
     /\ \/ calls[k].pc = "route" /\ waits[calls[k].routeWait].status # "run"
        \/ calls[k].pc = "content" /\ arb.pc \in {"idle", "done"}

(***************************************************************************)
(* DynamicStateManager.initialize / cleanup                                *)
(***************************************************************************)
\* the trackers the manager was built with, in the order it starts and stops them
enabledTrackers == SelectSeq(Trackers, LAMBDA t :
                      CASE t = "dom" -> domObserver
                        [] t = "net" -> networkMonitor
                        [] t = "spa" -> mgr.spaNavigator)

\* cleanup that stops only the first of its trackers
stopPromises_firstOnly ==
  IF enabledTrackers = << >> THEN << >> ELSE <<enabledTrackers[1]>>

\* the trackers whose stop promise cleanup pushes
stopPromises == enabledTrackers

Op(op, guarded) ==
  [op |-> op, guarded |-> guarded, outcome |-> IF guarded THEN "resolved" ELSE "pending",
   activeAfter |-> mgr.isInitialized]

counted(tr, field, trackers) ==
  [tr EXCEPT ![field] = [t \in DOMAIN @ |->
      @[t] + Cardinality({k \in DOMAIN trackers : trackers[k] = t})]]

\* initialize(), up to await Promise.all(promises)
initialize ==
  LET j == Len(mgr.ops) + 1
      ts == enabledTrackers
  IN /\ IF mgr.isInitialized
        THEN /\ mgr' = [mgr EXCEPT !.ops = Append(@, Op("initialize", TRUE))]
             /\ UNCHANGED <<calls, trace>>
        ELSE /\ mgr' = [mgr EXCEPT !.ops = Append(@, Op("initialize", FALSE))]
             /\ calls' = calls \o [k \in DOMAIN ts |-> begin(ts[k], "start", j)]
             /\ trace' = counted(trace, "startCalls", ts)
     /\ UNCHANGED <<now, arb, domPresent, bodyText, pageRoute, pageOk, currentRoute,
                    domObserver, networkMonitor, netVars, waits, domT, netT, spaT>>

\* cleanup(), up to await Promise.allSettled(promises)
cleanup ==
  LET j == Len(mgr.ops) + 1
      ts == stopPromises
  IN /\ IF ~ mgr.isInitialized
        THEN /\ mgr' = [mgr EXCEPT !.ops = Append(@, Op("cleanup", TRUE))]
             /\ UNCHANGED <<calls, trace>>
        ELSE /\ mgr' = [mgr EXCEPT !.ops = Append(@, Op("cleanup", FALSE))]
             /\ calls' = calls \o [k \in DOMAIN ts |-> begin(ts[k], "stop", j)]
             /\ trace' = counted(trace, "stopCalls", ts)
     /\ UNCHANGED <<now, arb, domPresent, bodyText, pageRoute, pageOk, currentRoute,
                    domObserver, networkMonitor, netVars, waits, domT, netT, spaT>>

Children(j) == {k \in DOMAIN calls : calls[k].owner = j}

\* Promise.all: rejected with the first rejection, fulfilled when all are
allSettles(j) ==
  \/ \E k \in Children(j) : calls[k].outcome = "rejected"
  \/ \A k \in Children(j) : calls[k].outcome = "resolved"

\* Promise.allSettled: fulfilled when every promise has settled
allSettledSettles(j) == \A k \in Children(j) : calls[k].outcome # "pending"

\* initialize() after its await that marks the manager initialized in the catch too
initializeReturn_marksFailure(j) ==
  mgr' = [mgr EXCEPT !.isInitialized = TRUE,
                     !.ops = [@ EXCEPT ![j] = [@ EXCEPT
                        !.outcome = IF \E k \in Children(j) : calls[k].outcome = "rejected"
                                    THEN "rejected" ELSE "resolved",
                        !.activeAfter = TRUE]]]

\* initialize() after its await: isInitialized = true, or the catch block rethrows
initializeReturn(j) ==
  IF \E k \in Children(j) : calls[k].outcome = "rejected"
  THEN mgr' = [mgr EXCEPT !.ops = [@ EXCEPT ![j] = [@ EXCEPT
                              !.outcome = "rejected",
                              !.activeAfter = mgr.isInitialized]]]
  ELSE mgr' = [mgr EXCEPT !.isInitialized = TRUE,
                          !.ops = [@ EXCEPT ![j] = [@ EXCEPT
                              !.outcome = "resolved", !.activeAfter = TRUE]]]

\* cleanup() after its await: isInitialized = false
cleanupReturn(j) ==
  mgr' = [mgr EXCEPT !.isInitialized = FALSE,
                     !.ops = [@ EXCEPT ![j] = [@ EXCEPT
                         !.outcome = "resolved", !.activeAfter = FALSE]]]

\* the continuation of call j of initialize() or cleanup()
mgrReturn(j) ==
  /\ mgr.ops[j].outcome = "pending"
  /\ IF mgr.ops[j].op = "initialize"
     THEN allSettles(j) /\ initializeReturn(j)
     ELSE allSettledSettles(j) /\ cleanupReturn(j)
  /\ UNCHANGED <<now, arb, domPresent, bodyText, pageRoute, pageOk, currentRoute,
                 domObserver, networkMonitor, netVars, waits, domT, netT, spaT, calls,
                 trace>>

\* an awaited Promise.all / Promise.allSettled has settled: the continuation
\* runs before anything else
MgrReady ==
  \E j \in DOMAIN mgr.ops :
     /\ mgr.ops[j].outcome = "pending"
     /\ IF mgr.ops[j].op = "initialize" THEN allSettles(j) ELSE allSettledSettles(j)

(***************************************************************************)
(* State after construction                                                *)
(***************************************************************************)
Constructed ==
  /\ now = 0
  /\ domPresent \in SUBSET DynSelectors
  /\ bodyText \in PageTexts
  /\ pageRoute \in Routes
  /\ pageOk \in BOOLEAN
  /\ currentRoute = << >>
  /\ domObserver \in BOOLEAN
  /\ networkMonitor \in BOOLEAN
  /\ arb = NoCall
  /\ pendingRequests = EmptyMap
  /\ completedRequests = << >>
  /\ requestCallbacks = << >>
  /\ waits = << >>
  /\ terminated = << >>
  /\ started = 0
  /\ domT = NewDOMObserver
  /\ spaT \in {[NewSPANavigator EXCEPT !.loadingDetector = b] : b \in BOOLEAN}
  /\ calls = << >>
  /\ mgr \in {[NewDynamicStateManager EXCEPT !.spaNavigator = b] : b \in BOOLEAN}
  /\ trace = NoTrace

Init == Constructed /\ netT = NewNetworkMonitor

\* the state in which network events arrive: startMonitoring() has succeeded
Monitoring ==
  /\ Constructed
  /\ netT = StartedNetworkMonitor
  /\ mgr.spaNavigator /\ spaT.loadingDetector

(***************************************************************************)
(* NetSpec: the network tracker under arbitrary events, with one wait call *)
(***************************************************************************)
RequestWillBeSent ==
  /\ started < MaxStarts
  /\ \E requestId \in ReqIds, url \in Urls : handleRequestStart(requestId, url)

\* The inspection channel reports a response before loadingFinished, and
\* loadingFailed for a request that got no response.
ResponseReceived ==
  \E requestId \in ReqIds : handleResponseReceived(requestId, 200)

LoadingFinished ==
  \E requestId \in ReqIds :
     /\ requestId \in DOMAIN pendingRequests
     /\ pendingRequests[requestId].status # 0
     /\ handleRequestFinished(requestId)

LoadingFailed ==
  \E requestId \in ReqIds :
     /\ requestId \in DOMAIN pendingRequests
     /\ pendingRequests[requestId].status = 0
     /\ handleRequestFailed(requestId)

\* a terminal event for an identifier that is not pending
LoadingStale ==
  \E requestId \in ReqIds :
     /\ requestId \notin DOMAIN pendingRequests
     /\ handleRequestFinished(requestId) \/ handleRequestFailed(requestId)

CallWaitForNetworkIdle ==
  /\ waits = << >>
  /\ \E timeout \in NetTimeouts, idleTime \in IdleTimes, filter \in UrlFilters :
        waitForNetworkIdle(timeout, idleTime, filter[1], filter[2])

CallWaitForRequests ==
  /\ waits = << >>
  /\ \E urlPatterns \in PatternLists, timeout \in NetTimeouts :
        waitForRequests(urlPatterns, timeout)

PollNetworkIdle == \E i \in DOMAIN waits : pollNetworkIdle(i)

TimeoutRequests == \E i \in DOMAIN waits : timeoutRequests(i)

NetNext ==
  \/ RequestWillBeSent
  \/ ResponseReceived
  \/ LoadingFinished
  \/ LoadingFailed
  \/ LoadingStale
  \/ CallWaitForNetworkIdle
  \/ CallWaitForRequests
  \/ PollNetworkIdle
  \/ TimeoutRequests
  \/ Tick

\* the page plays no part in the network tracker
NetInit ==
  /\ Monitoring
  /\ domPresent = {} /\ bodyText = TextDone /\ pageRoute = RouteHome /\ pageOk
  /\ domObserver /\ networkMonitor

NetSpec == NetInit /\ [][NetNext]_vars

(***************************************************************************)
(* WaitSpec: one wait call of any kind against a page and a network that   *)
(* change freely; due timers run and the clock advances (fairness)         *)
(***************************************************************************)
\* an element matching the selector appears in the page, or the last one goes
domChange(selector) ==
  /\ domPresent' = IF selector \in domPresent
                   THEN domPresent \ {selector} ELSE domPresent \cup {selector}
  /\ UNCHANGED <<now, arb, bodyText, pageRoute, pageOk, currentRoute, domObserver, networkMonitor, netVars, waits, lifeVars>>

DomChange == \E selector \in DynSelectors : domChange(selector)

TextChange ==
  \E text \in PageTexts \ {bodyText} :
     /\ bodyText' = text
     /\ UNCHANGED <<now, arb, domPresent, pageRoute, pageOk, currentRoute, domObserver, networkMonitor, netVars, waits, lifeVars>>

\* the page is closed or navigates away / is there again
PageChange ==
  /\ pageOk' = ~ pageOk
  /\ UNCHANGED <<now, arb, domPresent, bodyText, pageRoute, currentRoute,
                 domObserver, networkMonitor, netVars, waits, lifeVars>>

RouteChange ==
  \E route \in Routes \ {pageRoute} :
     /\ pageRoute' = route
     /\ UNCHANGED <<now, arb, domPresent, bodyText, pageOk, currentRoute, domObserver, networkMonitor, netVars, waits, lifeVars>>

\* the network of WaitSpec: one request at a time
OneRequestWillBeSent ==
  /\ started < MaxStarts
  /\ handleRequestStart(1, SlashA)

OneResponseReceived ==
  /\ 1 \in DOMAIN pendingRequests
  /\ handleResponseReceived(1, 200)

OneLoadingFinished ==
  /\ 1 \in DOMAIN pendingRequests
  /\ pendingRequests[1].status # 0
  /\ handleRequestFinished(1)

OneLoadingFailed ==
  /\ 1 \in DOMAIN pendingRequests
  /\ pendingRequests[1].status = 0
  /\ handleRequestFailed(1)

StartWait(w) ==
  /\ waits = << >>
  /\ waits' = Append(waits, w)
  /\ UNCHANGED <<now, arb, pageVars, netVars>>

CallWaitForContent ==
  \E selector \in DynSelectors, timeout \in DomTimeouts :
     StartWait(waitForContent(selector, timeout))

CallWaitForContentRemoval ==
  \E selector \in DynSelectors, timeout \in DomTimeouts :
     StartWait(waitForContentRemoval(selector, timeout))

CallPollForElement ==
  \E selector \in DynSelectors, timeout \in DomTimeouts, shouldExist \in BOOLEAN :
     StartWait(pollForElement(selector, timeout, shouldExist))

CallWaitForLoadingText ==
  \E timeout \in DomTimeouts :
     StartWait(waitForLoadingTextToDisappear(<<loading>>, timeout))

CallWaitForRouteChange ==
  \E expectedRoute \in {<< >>, RouteX}, timeout \in RouteTimeouts :
     StartWait(waitForRouteChange(expectedRoute, timeout))

CallIdle ==
  /\ waits = << >>
  /\ \E timeout \in NetTimeouts, idleTime \in IdleTimes :
        waitForNetworkIdle(timeout, idleTime, << >>, << >>)

CallRequests ==
  /\ waits = << >>
  /\ \E timeout \in NetTimeouts : waitForRequests(<<SlashA>>, timeout)

PollPage == \E i \in DOMAIN waits : pollPage(i, pageOk)

TimerStep == PollPage \/ PollNetworkIdle \/ TimeoutRequests

WaitNext ==
  \/ DomChange
  \/ TextChange
  \/ RouteChange
  \/ PageChange
  \/ OneRequestWillBeSent
  \/ OneResponseReceived
  \/ OneLoadingFinished
  \/ OneLoadingFailed
  \/ CallWaitForContent
  \/ CallWaitForContentRemoval
  \/ CallPollForElement
  \/ CallWaitForLoadingText
  \/ CallWaitForRouteChange
  \/ CallIdle
  \/ CallRequests
  \/ TimerStep
  \/ Tick

WaitInit == Monitoring /\ domObserver /\ networkMonitor

WaitSpec == WaitInit /\ [][WaitNext]_vars /\ WF_vars(TimerStep) /\ WF_vars(Tick)

(***************************************************************************)
(* PairSpec: waitForRequests calls that overlap, against one request       *)
(***************************************************************************)
CallRequestsAgain ==
  /\ Len(waits) < MaxOverlap
  /\ \E urlPatterns \in {<<SlashA>>, <<SlashA, SlashB>>}, timeout \in NetTimeouts :
        waitForRequests(urlPatterns, timeout)

PairNext ==
  \/ OneRequestWillBeSent
  \/ OneResponseReceived
  \/ OneLoadingFinished
  \/ OneLoadingFailed
  \/ CallRequestsAgain
  \/ TimeoutRequests
  \/ Tick

PairSpec == NetInit /\ [][PairNext]_vars

(***************************************************************************)
(* Spec: one waitForContentLoaded call against a page and a network that   *)
(* change freely                                                           *)
(***************************************************************************)
ArbPatterns ==
  {Pattern(<< >>, <<".results">>, << >>, << >>, FALSE, t) : t \in ShortTimeouts}
  \cup {Pattern(<< >>, <<".results", ".file">>, << >>, << >>, FALSE, t) : t \in ShortTimeouts}
  \cup {Pattern(<< >>, << >>, << >>, << >>, TRUE, t) : t \in ArbTimeouts}
  \cup {Pattern(<< >>, <<".results">>, << >>, << >>, TRUE, t) : t \in ShortTimeouts}
  \cup {Pattern(<<".spinner">>, <<".results">>, << >>, << >>, FALSE, t) : t \in ShortTimeouts}
  \cup {Pattern(<<".spinner", ".loading">>, << >>, << >>, << >>, FALSE, t) : t \in ShortTimeouts}
  \cup {Pattern(<< >>, << >>, <<loading>>, << >>, FALSE, t) : t \in ShortTimeouts}
  \cup {Pattern(<< >>, << >>, << >>, <<SlashA>>, FALSE, t) : t \in ShortTimeouts}
  \cup {Pattern(<< >>, << >>, << >>, << >>, FALSE, t) : t \in ArbTimeouts}

\* what of the page and of the detector's construction a call can read; the
\* rest is left at rest (it cannot change the call's course)
Fallback(patterns) == promisesOf(patterns) = << >>

ReadsSelectors(patterns) ==
  IF Fallback(patterns) THEN {".spinner"}
  ELSE Range(patterns.spinnerSelectors) \cup Range(patterns.contentSelectors)

ReadsText(patterns) == Fallback(patterns) \/ Len(patterns.loadingTextPatterns) > 0

ReadsNetwork(patterns) == Len(patterns.networkUrls) > 0 \/ patterns.networkIdle

AtRest(patterns) ==
  /\ domPresent \subseteq ReadsSelectors(patterns)
  /\ ReadsText(patterns) \/ bodyText = TextDone
  /\ ReadsText(patterns) \/ ReadsSelectors(patterns) # {} \/ pageOk
  /\ ReadsSelectors(patterns) # {} \/ domObserver
  /\ ReadsNetwork(patterns) \/ networkMonitor

CallWaitForContentLoaded ==
  \E patterns \in ArbPatterns : AtRest(patterns) /\ waitForContentLoaded(patterns)

DetectCloudStorageLoading ==
  \E found \in Platforms : detectCloudStorageLoading(found, pageOk)

\* The page and the network change while the call is waiting, in what one of
\* its waits looks at, between two rounds of timers.  Under a canned pattern
\* the page and the network stay as they were at the call.
Watched(kinds) ==
  /\ arb.pc = "waiting"
  /\ arb.depth = 0
  /\ NoTimerDue
  /\ \E i \in DOMAIN waits : waits[i].kind \in kinds

PageKinds == {"content", "removal", "poll", "text"}

WatchedDomChange ==
  \E selector \in DynSelectors :
     /\ Watched({"content", "removal", "poll"})
     /\ \E i \in DOMAIN waits : waits[i].selector = selector
     /\ domChange(selector)

WatchedTextChange == Watched({"text"}) /\ TextChange

WatchedPageChange == Watched(PageKinds) /\ PageChange

NetworkWatched == Watched({"idle", "urls"})

Next ==
  \/ waitForContentLoadedReturn
  \/ ~ ArbiterReady /\ CallWaitForContentLoaded
  \/ ~ ArbiterReady /\ DetectCloudStorageLoading
  \/ ~ ArbiterReady /\ WatchedDomChange
  \/ ~ ArbiterReady /\ WatchedTextChange
  \/ ~ ArbiterReady /\ WatchedPageChange
  \/ ~ ArbiterReady /\ NetworkWatched /\ OneRequestWillBeSent
  \/ ~ ArbiterReady /\ NetworkWatched /\ OneResponseReceived
  \/ ~ ArbiterReady /\ NetworkWatched /\ OneLoadingFinished
  \/ ~ ArbiterReady /\ NetworkWatched /\ OneLoadingFailed
  \/ ~ ArbiterReady /\ PollPage
  \/ ~ ArbiterReady /\ PollNetworkIdle
  \/ ~ ArbiterReady /\ TimeoutRequests
  \/ ~ ArbiterReady /\ Tick

ArbInit == Monitoring /\ pageRoute = RouteHome

Spec == ArbInit /\ [][Next]_vars

(***************************************************************************)
(* HistSpec: a long run of requests, one at a time, through the bounded    *)
(* completed list                                                          *)
(***************************************************************************)
Failures == Cardinality({k \in DOMAIN terminated : terminated[k].failed})

HistStart ==
  /\ started < MaxRequests
  /\ pendingRequests = EmptyMap
  /\ handleRequestStart(started + 1, SlashA)

HistResponse ==
  \E requestId \in DOMAIN pendingRequests : handleResponseReceived(requestId, 200)

HistFinish ==
  \E requestId \in DOMAIN pendingRequests :
     /\ pendingRequests[requestId].status # 0
     /\ handleRequestFinished(requestId)

HistFail ==
  /\ Failures < MaxFailures
  /\ \E requestId \in DOMAIN pendingRequests :
        /\ pendingRequests[requestId].status = 0
        /\ handleRequestFailed(requestId)

HistNext == HistStart \/ HistResponse \/ HistFinish \/ HistFail

HistSpec == NetInit /\ [][HistNext]_vars

(***************************************************************************)
(* LifeSpec: start and stop called on the three trackers, one call at a    *)
(* time on each tracker, while the page comes and goes                     *)
(***************************************************************************)
Busy(tracker) ==
  \E k \in DOMAIN calls : calls[k].tracker = tracker /\ calls[k].outcome = "pending"

TrackerCall ==
  \E t \in DOMAIN Trackers, op \in {"start", "stop"} :
     /\ Len(calls) < MaxCalls
     /\ ~ Busy(Trackers[t])
     /\ trackerCall(Trackers[t], op)

DomStep == \E k \in DOMAIN calls : domStep(k, pageOk)

NetStep == \E k \in DOMAIN calls : netStep(k, pageOk)

SpaStep == \E k \in DOMAIN calls : spaStep(k, pageOk)

LifeNext == TrackerCall \/ DomStep \/ NetStep \/ SpaStep \/ PageChange

LifeInit ==
  /\ Init
  /\ domPresent = {} /\ bodyText = TextDone /\ pageRoute = RouteX
  /\ domObserver /\ networkMonitor /\ mgr.spaNavigator /\ spaT.loadingDetector

LifeSpec == LifeInit /\ [][LifeNext]_vars

(***************************************************************************)
(* MutSpec: subscribers of the DOMObserver, starts that may overlap,       *)
(* mutation batches in the page, the polling loop and the debounce timers  *)
(***************************************************************************)
OnContentChange ==
  \E id \in CallbackIds, throws \in BOOLEAN, debounceMs \in DebounceInputs :
     /\ calls = << >>
     /\ Len(domT.callbacks) < Cardinality(CallbackIds)
     /\ \A k \in DOMAIN domT.callbacks : domT.callbacks[k].id # id
     /\ onContentChange(id, throws, debounceMs)

StartObserving ==
  /\ Len(calls) < MaxOverlap
  /\ domT.callbacks # << >>
  /\ trackerCall("dom", "start")

MutationBatch ==
  /\ Len(trace.batches) < MaxBatches
  /\ NoTimerDue
  /\ mutationBatch(<<Len(trace.batches) + 1>>)

\* a batch of a run with few events
DispatchBatch ==
  /\ Len(trace.batches) < MaxDispatch
  /\ NoTimerDue
  /\ mutationBatch(<<Len(trace.batches) + 1>>)

PollMutations == \E j \in DOMAIN domT.loops : pollMutations(j, pageOk)

DebounceFire == \E j \in DOMAIN domT.debounceTimers : debounceFire(j)

BoundedTick == now < MaxTime /\ Tick

MutNext ==
  \/ OnContentChange
  \/ StartObserving
  \/ DomStep
  \/ MutationBatch
  \/ PollMutations
  \/ DebounceFire
  \/ BoundedTick

MutInit == LifeInit /\ pageOk

MutSpec == MutInit /\ [][MutNext]_vars

(***************************************************************************)
(* RelaySpec: MutSpec with the tracker left observing and the page left    *)
(* reachable; started calls go on, due polls and timers run and the clock  *)
(* advances (fairness). A batch is posted while the clock has room for its *)
(* poll and its debounce window.                                           *)
(***************************************************************************)
RelayBatch ==
  /\ Len(trace.batches) < MaxBatches
  /\ NoTimerDue
  /\ now + RelayInterval + DebounceDefault <= MaxTime
  /\ mutationBatch(<<Len(trace.batches) + 1>>)

RelayNext ==
  \/ OnContentChange
  \/ StartObserving
  \/ DomStep
  \/ RelayBatch
  \/ PollMutations
  \/ DebounceFire
  \/ BoundedTick

RelaySpec ==
  /\ MutInit
  /\ [][RelayNext]_vars
  /\ WF_vars(DomStep)
  /\ WF_vars(PollMutations)
  /\ WF_vars(DebounceFire)
  /\ WF_vars(BoundedTick)

(***************************************************************************)
(* StopSpec: the DOMObserver with its subscribers through starts that may  *)
(* overlap, stops and later starts, with mutation batches in the page, the *)
(* polling loop and the debounce timers                                    *)
(***************************************************************************)
Registered(id) == \E k \in DOMAIN domT.callbacks : domT.callbacks[k].id = id

RemoveCallback ==
  \E id \in CallbackIds :
     /\ trace.removed < MaxRemovals
     /\ Registered(id)
     /\ NoTimerDue
     /\ removeCallback(id)

DomCall ==
  \E op \in {"start", "stop"} :
     /\ Len(calls) < MaxCalls
     /\ domT.callbacks # << >>
     /\ NoTimerDue
     /\ IF op = "start"
        THEN Cardinality({k \in DOMAIN calls : calls[k].outcome = "pending"}) < MaxOverlap
        ELSE ~ Busy("dom")
     /\ trackerCall("dom", op)

StopNext ==
  \/ OnContentChange
  \/ DomCall
  \/ DomStep
  \/ DispatchBatch
  \/ PollMutations
  \/ DebounceFire
  \/ BoundedTick

StopSpec == MutInit /\ [][StopNext]_vars

(***************************************************************************)
(* SubSpec: MutSpec with subscribers that do not throw, one of which is    *)
(* removed, and may be registered again, while the DOMObserver observes    *)
(***************************************************************************)
Subscribe ==
  \E id \in CallbackIds, debounceMs \in DebounceInputs :
     /\ calls = << >> \/ trace.removed > 0
     /\ ~ Registered(id)
     /\ NoTimerDue
     /\ onContentChange(id, FALSE, debounceMs)

SubNext ==
  \/ Subscribe
  \/ RemoveCallback
  \/ StartObserving
  \/ DomStep
  \/ DispatchBatch
  \/ PollMutations
  \/ DebounceFire
  \/ BoundedTick

SubSpec == MutInit /\ [][SubNext]_vars

(***************************************************************************)
(* NetStopSpec: the NetworkMonitor through starts, stops and later starts, *)
(* with the requests of the page while the debugger reports them and one   *)
(* waitForRequests call made while monitoring                              *)
(***************************************************************************)
NetCall ==
  \E op \in {"start", "stop"} :
     /\ Len(calls) < MaxCalls
     /\ ~ Busy("net")
     /\ trackerCall("net", op)

NetStopNext ==
  \/ NetCall
  \/ NetStep
  \/ netT.enabled /\ OneRequestWillBeSent
  \/ netT.enabled /\ OneResponseReceived
  \/ netT.enabled /\ OneLoadingFinished
  \/ netT.enabled /\ OneLoadingFailed
  \/ netT.isMonitoring /\ CallRequests
  \/ TimeoutRequests
  \/ Tick

NetStopInit == LifeInit /\ pageOk

NetStopSpec == NetStopInit /\ [][NetStopNext]_vars

(***************************************************************************)
(* TeardownSpec: the DOMObserver and the NetworkMonitor are started and    *)
(* stopped while a waitForContent or a waitForNetworkIdle call, made on    *)
(* the active tracker, polls                                               *)
(***************************************************************************)
TeardownCall ==
  \E t \in {"dom", "net"}, op \in {"start", "stop"} :
     /\ Len(calls) < MaxCalls
     /\ ~ Busy(t)
     /\ trackerCall(t, op)

TeardownNext ==
  \/ TeardownCall
  \/ DomStep
  \/ NetStep
  \/ domT.isObserving /\ CallWaitForContent
  \/ netT.isMonitoring /\ CallIdle
  \/ PollPage
  \/ PollNetworkIdle
  \/ DomChange
  \/ Tick

TeardownSpec == NetStopInit /\ [][TeardownNext]_vars

(***************************************************************************)
(* OverlapSpec: starts of the DOMObserver and of the SPANavigator that may *)
(* overlap, and stops made when no call on the tracker is under way        *)
(***************************************************************************)
Pending(tracker) ==
  Cardinality({k \in DOMAIN calls : calls[k].tracker = tracker /\ calls[k].outcome = "pending"})

OverlapCall ==
  \E tracker \in {"dom", "spa"}, op \in {"start", "stop"} :
     /\ Len(calls) < MaxCalls
     /\ IF op = "start" THEN Pending(tracker) < MaxOverlap ELSE ~ Busy(tracker)
     /\ trackerCall(tracker, op)

OverlapNext == OverlapCall \/ DomStep \/ SpaStep

OverlapSpec == NetStopInit /\ [][OverlapNext]_vars

(***************************************************************************)
(* RouteSpec: subscribers of the SPANavigator, starts that may overlap,    *)
(* transitions in the page and the polling loop; started calls go on, due  *)
(* polls run and the clock advances (fairness)                             *)
(***************************************************************************)
OnRouteChange ==
  \E id \in CallbackIds, throws \in BOOLEAN :
     /\ calls = << >>
     /\ spaT.routeChangeCallbacks = << >>
     /\ onRouteChange(id, throws)

StartMonitoring ==
  /\ Len(calls) < MaxOverlap
  /\ trackerCall("spa", "start")

PushState ==
  \E route \in Routes \ {pageRoute} :
     /\ Len(trace.transitions) < MaxTransitions
     /\ NoTimerDue
     /\ pushState(route)

HashChange ==
  /\ Len(trace.transitions) < MaxTransitions
  /\ NoTimerDue
  /\ hashChange(IF Last(pageRoute) = Fragment
                THEN SubSeq(pageRoute, 1, Len(pageRoute) - 1)
                ELSE Append(pageRoute, Fragment))

PollRouteChanges == \E j \in DOMAIN spaT.loops : pollRouteChanges(j, pageOk)

RouteNext ==
  \/ OnRouteChange
  \/ StartMonitoring
  \/ SpaStep
  \/ PushState
  \/ HashChange
  \/ PollRouteChanges
  \/ BoundedTick

RouteInit == LifeInit /\ pageOk

RouteSpec ==
  /\ RouteInit
  /\ [][RouteNext]_vars
  /\ WF_vars(SpaStep)
  /\ WF_vars(PollRouteChanges)
  /\ WF_vars(BoundedTick)

(***************************************************************************)
(* RouteHistSpec: after one startMonitoring(), a long run of URL changes   *)
(* of the tab through the bounded navigation history                       *)
(***************************************************************************)
TabUrls == <<Url(RouteHome), Url(RouteX), Url(Append(RouteX, Fragment))>>

StartOnce ==
  /\ calls = << >>
  /\ trackerCall("spa", "start")

TabUpdated ==
  /\ Len(trace.handled) < MaxRouteEvents
  /\ tabUpdated(TabUrls[(Len(trace.handled) % Len(TabUrls)) + 1])

RouteHistNext == StartOnce \/ SpaStep \/ TabUpdated

RouteHistSpec == RouteInit /\ [][RouteHistNext]_vars

(***************************************************************************)
(* TabSpec: startMonitoring() and stopMonitoring() calls of the            *)
(* SPANavigator, one after the other, among URL changes of the tab         *)
(***************************************************************************)
SpaCall ==
  \E op \in {"start", "stop"} :
     /\ Len(calls) < MaxCalls
     /\ ~ Busy("spa")
     /\ trackerCall("spa", op)

TabChange ==
  /\ Len(trace.handled) < MaxOps
  /\ tabUpdated(TabUrls[(Len(trace.handled) % Len(TabUrls)) + 1])

TabNext == SpaCall \/ SpaStep \/ TabChange

TabSpec == RouteInit /\ [][TabNext]_vars

(***************************************************************************)
(* RouteWaitSpec: after one startMonitoring(), one waitForRouteChange call *)
(* against a page whose route and reachability change                      *)
(***************************************************************************)
RouteWaitNext ==
  \/ StartOnce
  \/ SpaStep
  \/ spaT.isMonitoring /\ CallWaitForRouteChange
  \/ PollPage
  \/ PageChange
  \/ RouteChange
  \/ Tick

RouteWaitSpec == LifeInit /\ [][RouteWaitNext]_vars

(***************************************************************************)
(* DispatchSpec: a manager built with one tracker; two subscribers, either *)
(* of which may throw; the tracker is started and dispatches events        *)
(***************************************************************************)
Enabled(tracker) ==
  CASE tracker = "dom" -> domObserver
    [] tracker = "net" -> networkMonitor
    [] tracker = "spa" -> mgr.spaNavigator

NextId(entries) == IF entries = << >> THEN "s1" ELSE "s2"

SubscribeDom ==
  \E throws \in BOOLEAN :
     /\ Enabled("dom") /\ calls = << >>
     /\ Len(domT.callbacks) < Cardinality(CallbackIds)
     /\ onContentChange(NextId(domT.callbacks), throws, 0)

SubscribeNet ==
  \E throws \in BOOLEAN :
     /\ Enabled("net") /\ calls = << >>
     /\ Len(requestCallbacks) < Cardinality(CallbackIds)
     /\ onRequestSubscriber(NextId(requestCallbacks), throws)

SubscribeSpa ==
  \E throws \in BOOLEAN :
     /\ Enabled("spa") /\ calls = << >>
     /\ Len(spaT.routeChangeCallbacks) < Cardinality(CallbackIds)
     /\ onRouteChange(NextId(spaT.routeChangeCallbacks), throws)

Subscribers(tracker) ==
  CASE tracker = "dom" -> domT.callbacks
    [] tracker = "net" -> requestCallbacks
    [] tracker = "spa" -> spaT.routeChangeCallbacks

StartTracker ==
  \E t \in DOMAIN Trackers :
     /\ Enabled(Trackers[t])
     /\ Len(Subscribers(Trackers[t])) = Cardinality(CallbackIds)
     /\ Len(calls) < (IF Trackers[t] = "dom" THEN MaxOverlap ELSE 1)
     /\ trackerCall(Trackers[t], "start")

DispatchTabUpdated ==
  /\ Len(trace.handled) < MaxDispatch
  /\ tabUpdated(TabUrls[(Len(trace.handled) % Len(TabUrls)) + 1])

DispatchNext ==
  \/ SubscribeDom
  \/ SubscribeNet
  \/ SubscribeSpa
  \/ StartTracker
  \/ DomStep
  \/ NetStep
  \/ SpaStep
  \/ DispatchBatch
  \/ PollMutations
  \/ DebounceFire
  \/ DispatchTabUpdated
  \/ netT.listeners > 0 /\ OneRequestWillBeSent
  \/ netT.listeners > 0 /\ OneResponseReceived
  \/ netT.listeners > 0 /\ OneLoadingFinished
  \/ netT.listeners > 0 /\ OneLoadingFailed
  \/ BoundedTick

DispatchInit ==
  /\ Init
  /\ domPresent = {} /\ bodyText = TextDone /\ pageRoute = RouteX /\ pageOk
  /\ Cardinality({t \in Range(Trackers) : Enabled(t)}) = 1
  /\ spaT.loadingDetector

DispatchSpec == DispatchInit /\ [][DispatchNext]_vars

(***************************************************************************)
(* NavSpec: one navigateToRoute call against a page whose route, elements  *)
(* and reachability change while the call waits                            *)
(***************************************************************************)
NavigateToRoute ==
  \E route \in {RouteX}, waitForLoad \in BOOLEAN, timeout \in NavTimeouts :
     /\ calls = << >>
     /\ navigateToRoute(route, waitForLoad, timeout, <<".results">>)

NavStep == \E k \in DOMAIN calls : navStep(k, pageOk)

NavCallsContent == \E k \in DOMAIN calls : navCallsContent(k)

Navigating ==
  /\ \E k \in DOMAIN calls : calls[k].op = "navigate" /\ calls[k].outcome = "pending"
  /\ ~ NavReady
  /\ ~ ArbiterReady

NavNext ==
  \/ NavigateToRoute
  \/ NavStep
  \/ NavCallsContent
  \/ waitForContentLoadedReturn
  \/ Navigating /\ PollPage
  \/ Navigating /\ PageChange
  \/ Navigating /\ RouteChange
  \/ Navigating /\ NoTimerDue /\ domChange(".results")
  \/ Navigating /\ Tick

NavInit ==
  /\ Init
  /\ domPresent = {} /\ bodyText = TextDone /\ pageOk
  /\ pageRoute \in {RouteHome, RouteHashed}
  /\ domObserver /\ ~ networkMonitor /\ mgr.spaNavigator

NavSpec == NavInit /\ [][NavNext]_vars

(***************************************************************************)
(* CoordSpec: initialize() and cleanup() called on a manager built with    *)
(* any of the trackers, each once the call before and the starts and stops *)
(* it made have ended, while the page comes and goes                       *)
(***************************************************************************)
MgrIdle ==
  /\ \A j \in DOMAIN mgr.ops : mgr.ops[j].outcome # "pending"
  /\ \A k \in DOMAIN calls : calls[k].outcome # "pending"

Initialize == Len(mgr.ops) < MaxOps /\ MgrIdle /\ initialize

Cleanup == Len(mgr.ops) < MaxOps /\ MgrIdle /\ cleanup

MgrReturn == \E j \in DOMAIN mgr.ops : mgrReturn(j)

CoordNext ==
  \/ Initialize
  \/ Cleanup
  \/ MgrReturn
  \/ ~ MgrReady /\ DomStep
  \/ ~ MgrReady /\ NetStep
  \/ ~ MgrReady /\ SpaStep
  \/ ~ MgrReady /\ PageChange

CoordInit ==
  /\ Init
  /\ domPresent = {} /\ bodyText = TextDone /\ pageRoute = RouteX
  /\ spaT.loadingDetector

CoordSpec == CoordInit /\ [][CoordNext]_vars

(***************************************************************************)
(* NetCondSpec: one waitForContentLoaded call whose pattern carries a      *)
(* network condition, on a detector built with or without a network        *)
(* monitor                                                                 *)
(***************************************************************************)
NetCondPatterns ==
  {Pattern(<< >>, <<".results">>, << >>, << >>, TRUE, t) : t \in ShortTimeouts}
  \cup {Pattern(<< >>, <<".results">>, << >>, <<SlashA>>, FALSE, t) : t \in ShortTimeouts}
  \cup {Pattern(<< >>, << >>, << >>, << >>, TRUE, t) : t \in ArbTimeouts}

CallWithNetworkCondition ==
  \E patterns \in NetCondPatterns : AtRest(patterns) /\ waitForContentLoaded(patterns)

NetCondNext ==
  \/ waitForContentLoadedReturn
  \/ ~ ArbiterReady /\ CallWithNetworkCondition
  \/ ~ ArbiterReady /\ DetectCloudStorageLoading
  \/ ~ ArbiterReady /\ WatchedDomChange
  \/ ~ ArbiterReady /\ WatchedPageChange
  \/ ~ ArbiterReady /\ NetworkWatched /\ OneRequestWillBeSent
  \/ ~ ArbiterReady /\ NetworkWatched /\ OneResponseReceived
  \/ ~ ArbiterReady /\ NetworkWatched /\ OneLoadingFinished
  \/ ~ ArbiterReady /\ NetworkWatched /\ OneLoadingFailed
  \/ ~ ArbiterReady /\ PollPage
  \/ ~ ArbiterReady /\ PollNetworkIdle
  \/ ~ ArbiterReady /\ TimeoutRequests
  \/ ~ ArbiterReady /\ Tick

NetCondSpec == ArbInit /\ [][NetCondNext]_vars

(***************************************************************************)
(* SettleSpec: one waitForContentLoaded call with a spinner and a content  *)
(* selector against a page that is reachable, shows the spinner some time  *)
(* after the call and, less than half the timeout after the call, removes  *)
(* it and shows the content in the same instant                            *)
(***************************************************************************)
SettleTimeouts == {8, 10}

CallSettle ==
  \E timeout \in SettleTimeouts :
     waitForContentLoaded(Pattern(<<".spinner">>, <<".results">>, << >>, << >>, FALSE, timeout))

\* the moment now is less than half the timeout after the call
InFirstHalf(t) == 2 * (t - arb.start) < arb.timeout

SpinnerAppears ==
  /\ arb.pc = "waiting"
  /\ domPresent = {}
  /\ InFirstHalf(now)
  /\ domPresent' = {".spinner"}
  /\ UNCHANGED <<now, arb, bodyText, pageRoute, pageOk, currentRoute, domObserver,
                 networkMonitor, netVars, waits, lifeVars>>

SpinnerGivesWay ==
  /\ arb.pc = "waiting"
  /\ domPresent = {".spinner"}
  /\ InFirstHalf(now)
  /\ domPresent' = {".results"}
  /\ UNCHANGED <<now, arb, bodyText, pageRoute, pageOk, currentRoute, domObserver,
                 networkMonitor, netVars, waits, lifeVars>>

\* time passes; the page keeps its promise to have settled in the first half
SettleTick ==
  /\ domPresent = {".results"} \/ InFirstHalf(now + 1)
  /\ Tick

SettleNext ==
  \/ CallSettle
  \/ waitForContentLoadedReturn
  \/ ~ ArbiterReady /\ SpinnerAppears
  \/ ~ ArbiterReady /\ SpinnerGivesWay
  \/ ~ ArbiterReady /\ PollPage
  \/ ~ ArbiterReady /\ SettleTick

SettleInit == ArbInit /\ domPresent = {} /\ bodyText = TextDone /\ pageOk

SettleSpec == SettleInit /\ [][SettleNext]_vars /\ WF_vars(SettleNext)

(***************************************************************************)
(* ActionSpec: an ActionBuilder is constructed, which starts                *)
(* initializeDynamicStateManager() without awaiting it, and its            *)
(* searchGoogleDrive action runs once.  The manager is assigned in the     *)
(* same turn as initialize() is called, so the builder has a manager       *)
(* exactly when mgr.ops is not empty; before that the action takes its     *)
(* fallback, a plain delay that touches nothing.                           *)
(***************************************************************************)
\* the timeout of the action's call, 15000 ms in the source, shortened to 1200 ms:
\* how long the call waits plays no part in when it may be made
DriveTimeout == 12

DriveSelectors == <<"[data-testid=\"file-row\"]", "[role=\"grid\"]", "[aria-label=\"Search Drive\"]">>

\* initializeDynamicStateManager() after getCurrentPage() has given a page
initializeDynamicStateManager ==
  /\ mgr.ops = << >>
  /\ initialize

\* the searchGoogleDrive action after navigateTo: getLoadingDetector() of the
\* manager, if the builder has one, and waitForContentLoaded on it
searchGoogleDrive ==
  /\ mgr.ops # << >>
  /\ waitForContentLoaded(Pattern(<< >>, DriveSelectors, << >>, << >>, TRUE, DriveTimeout))

ActionNext ==
  \/ initializeDynamicStateManager
  \/ searchGoogleDrive
  \/ MgrReturn
  \/ waitForContentLoadedReturn
  \/ ~ MgrReady /\ ~ ArbiterReady /\ DomStep
  \/ ~ MgrReady /\ ~ ArbiterReady /\ NetStep
  \/ ~ MgrReady /\ ~ ArbiterReady /\ SpaStep
  \/ ~ MgrReady /\ ~ ArbiterReady /\ PageChange
  \/ ~ MgrReady /\ ~ ArbiterReady /\ PollPage
  \/ ~ MgrReady /\ ~ ArbiterReady /\ PollNetworkIdle
  \/ ~ MgrReady /\ ~ ArbiterReady /\ Tick

ActionSpec == NetStopInit /\ [][ActionNext]_vars

(***************************************************************************)
(* Claims about waitForContentLoaded                                       *)
(***************************************************************************)
Returned == arb.pc = "done"

Built(t) == \E k \in DOMAIN arb.promises : arb.promises[k] = t

\* the waits of a condition that had resolved true when the call returned
TrueBy(t) ==
  {i \in TaskWaits(t) : waits[i].status = "true" /\ waits[i].doneAt <= arb.doneAt}

\* the moment the promise of a condition settles
TaskDoneAt(t) ==
  LET done == {waits[i].doneAt : i \in {j \in TaskWaits(t) : waits[j].status # "run"}}
  IN IF t = "content"
     THEN CHOOSE d \in done : \A e \in done : d <= e
     ELSE CHOOSE d \in done : \A e \in done : d >= e

\* C1: a call with two or more conditions returns true only if every condition
\* task resolved true (every wait of the spinner, text, urls and idle
\* conditions, and the content task); when its network-idle wait resolved
\* false the call returns false, and not before the timeout has elapsed.
C1_AndSemantics ==
  (Returned /\ Len(arb.promises) >= 2) =>
     /\ arb.result =>
           /\ \A k \in DOMAIN arb.promises : taskResult(arb.promises[k])
           /\ \A t \in {"spinner", "text", "urls", "idle"} : TrueBy(t) = TaskWaits(t)
     /\ (\E i \in TaskWaits("idle") : waits[i].status = "false") =>
           /\ ~ arb.result
           /\ arb.doneAt >= arb.start + arb.timeout

\* content satisfied at once, network never idle: false at the timeout
C1_Witness ==
  /\ Returned
  /\ arb.promises = <<"content", "idle">>
  /\ \E i \in TaskWaits("content") :
        waits[i].status = "true" /\ waits[i].doneAt = arb.start
  /\ \E i \in TaskWaits("idle") : waits[i].status = "false"
  /\ ~ arb.result
  /\ arb.doneAt = arb.start + arb.timeout

\* C2: a call whose only condition is contentSelectors returns true only when
\* the wait of at least one content selector resolved true; when every
\* selector's wait resolved false, or none matched, it returns false.
C2_ContentPresent ==
  (Returned /\ arb.promises = <<"content">>) =>
     (arb.result => TrueBy("content") # {})

\* C3: the call always resolves to a boolean, and a failure inside one of its
\* waits produces false (unless another content selector did match).
C3_ErrorsGiveFalse ==
  Returned =>
     /\ arb.result \in BOOLEAN
     /\ ( /\ \E i \in DOMAIN waits :
               waits[i].errored /\ waits[i].doneAt <= arb.doneAt
          /\ TrueBy("content") = {} )
          => ~ arb.result

\* C4: a call that built exactly one condition task returns that task's
\* result at the moment the task settles; with only networkIdle that is the
\* result of waitForNetworkIdle, at the moment it resolves.
C4_SinglePassthrough ==
  (Returned /\ Len(arb.promises) = 1) =>
     /\ arb.result = taskResult(arb.promises[1])
     /\ arb.doneAt = TaskDoneAt(arb.promises[1])
     /\ Built("idle") =>
           \A i \in TaskWaits("idle") :
              /\ arb.result = (waits[i].status = "true")
              /\ arb.doneAt = waits[i].doneAt

C4_Witness ==
  /\ Returned
  /\ arb.depth = 0
  /\ arb.promises = <<"idle">>
  /\ arb.result
  /\ \E i \in TaskWaits("idle") :
        /\ waits[i].status = "true"
        /\ waits[i].doneAt = arb.doneAt
        /\ arb.doneAt = arb.start + IdleTimeDefault

(***************************************************************************)
(* Claims about the network tracker                                        *)
(***************************************************************************)
CompletedIds == {completedRequests[k].requestId : k \in DOMAIN completedRequests}

\* C6: no request identifier is at once in the pending collection and in the
\* completed list, whatever the sequence of events (an identifier announced
\* again after it terminated included).
C6_PendingCompletedDisjoint == DOMAIN pendingRequests \cap CompletedIds = {}

\* the last n elements of a sequence
LastN(s, n) == SubSeq(s, Len(s) - n + 1, Len(s))

Min(a, b) == IF a < b THEN a ELSE b

\* C7: the completed list never holds more than 100 entries, and it is the
\* 100 most recently terminated requests (all of them while there are at most
\* 100), in termination order.
C7_BoundedHistory ==
  /\ Len(completedRequests) <= 100
  /\ completedRequests = LastN(terminated, Min(100, Len(terminated)))

C7_Witness ==
  /\ Len(terminated) > 100
  /\ Len(completedRequests) = 100
  /\ completedRequests[1].requestId = Len(terminated) - 99
  /\ \E k \in DOMAIN completedRequests : completedRequests[k].failed

\* C8: waitForNetworkIdle resolves true only after the filtered pending set has
\* been empty continuously for at least idleTime: every relevant request that
\* was pending at some moment, seen by a poll or not, restarts the window.
C8_IdleAfterQuietWindow ==
  \A i \in DOMAIN waits :
     (waits[i].kind = "idle" /\ waits[i].status = "true")
        => /\ waits[i].emptySince # None
           /\ waits[i].doneAt - waits[i].emptySince >= waits[i].idleTime

\* the precedence of the filters as the specification states it
Counts(w, url) ==
  \/ /\ w.onlyUrls # << >>
     /\ \E k \in DOMAIN w.onlyUrls : Includes(url, w.onlyUrls[k])
  \/ /\ w.onlyUrls = << >>
     /\ w.ignoreUrls # << >>
     /\ \A k \in DOMAIN w.ignoreUrls : ~ Includes(url, w.ignoreUrls[k])
  \/ /\ w.onlyUrls = << >>
     /\ w.ignoreUrls = << >>

\* C9: waitForNetworkIdle resolves true only when no pending request counts
\* under the precedence onlyUrls, else ignoreUrls, else all: requests outside
\* onlyUrls may still be pending, requests inside it may not.
C9_FilterPrecedence ==
  \A i \in DOMAIN waits :
     (waits[i].kind = "idle" /\ waits[i].status = "true")
        => \A url \in waits[i].pendingAtDone : ~ Counts(waits[i], url)

C9_Witness ==
  \E i \in DOMAIN waits :
     /\ waits[i].kind = "idle"
     /\ waits[i].status = "true"
     /\ waits[i].onlyUrls = <<SlashA>>
     /\ waits[i].ignoreUrls = <<SlashA>>
     /\ SlashB \in waits[i].pendingAtDone


\* C11: a loadingFailed event for a pending request (in NetSpec: one that has
\* had no response) removes it from pending and appends it to the completed
\* list with failed = true; the completed list changes only when a pending
\* request leaves pending, so a failure for an identifier that is not pending
\* changes nothing.
C11_FailureIsTerminal ==
  [][ /\ \A id \in DOMAIN pendingRequests :
           (pendingRequests[id].status = 0 /\ id \notin DOMAIN pendingRequests')
              => /\ completedRequests' # << >>
                 /\ Last(completedRequests') =
                      [pendingRequests[id] EXCEPT !.completed = TRUE, !.failed = TRUE]
      /\ completedRequests' # completedRequests
           => \E id \in DOMAIN pendingRequests : id \notin DOMAIN pendingRequests'
    ]_vars

\* a failed request is in the completed list, nothing is pending and a
\* waitForNetworkIdle call resolved true after the failure
C11_Witness ==
  /\ pendingRequests = EmptyMap
  /\ completedRequests # << >>
  /\ Last(completedRequests).failed
  /\ \E i \in DOMAIN waits :
        /\ waits[i].kind = "idle"
        /\ waits[i].status = "true"
        /\ waits[i].lastActivityTime > waits[i].start

AllMatched(w) ==
  \A k \in DOMAIN w.urlPatterns :
     \E c \in DOMAIN completedRequests :
        Includes(completedRequests[c].url, w.urlPatterns[k])

\* C10: waitForRequests resolves true once every pattern of the list (repeated
\* patterns included) has matched a completed request, those completed before
\* the call included: it is never still waiting when all patterns have matched.
C10_ResolvesOnceAllMatched ==
  \A i \in DOMAIN waits :
     (waits[i].kind = "urls" /\ AllMatched(waits[i])) => waits[i].status # "run"

(***************************************************************************)
(* Claims about the waits                                                  *)
(***************************************************************************)
AllResolved == \A i \in DOMAIN waits : waits[i].status # "run"

\* the latest moment a wait may take to notice that its timeout has elapsed
Deadline(w) ==
  w.start + w.timeout + (IF w.kind = "urls" THEN 0
                         ELSE IF w.kind = "idle" THEN IdlePollInterval
                         ELSE w.checkInterval)

TimedOutInTime ==
  \A i \in DOMAIN waits :
     /\ waits[i].status \in {"run", "true", "false"}
     /\ waits[i].status = "run" => now <= Deadline(waits[i])
     /\ (waits[i].status = "false" /\ ~ waits[i].errored)
           => /\ waits[i].doneAt >= waits[i].start + waits[i].timeout
              /\ waits[i].doneAt <= Deadline(waits[i])

\* C5: every waitFor* call eventually resolves; one whose condition is not met
\* resolves false once its timeout has elapsed, at most one poll interval
\* later, and no wait is left running past that moment.
C5_EveryWaitResolves == []TimedOutInTime /\ []<>AllResolved

C5_Witness ==
  \E i \in DOMAIN waits :
     /\ waits[i].kind = "route"
     /\ waits[i].status = "false"
     /\ ~ waits[i].errored
     /\ waits[i].doneAt = waits[i].start + waits[i].timeout

(***************************************************************************)
(* Claims about the trackers' lifecycle                                    *)
(***************************************************************************)
\* a start that ran to the end, then a second start, and no stop since the first
DoubleStarted(tracker) ==
  \E i, j \in DOMAIN calls :
     /\ i < j
     /\ calls[i].tracker = tracker /\ calls[i].op = "start"
     /\ ~ calls[i].guarded /\ calls[i].outcome = "resolved"
     /\ calls[j].tracker = tracker /\ calls[j].op = "start"
     /\ calls[j].pc = "done"
     /\ \A k \in DOMAIN calls :
           (k > i /\ calls[k].tracker = tracker) => calls[k].op = "start"

\* exactly one of everything a start installs
OneInstallation(tracker) ==
  CASE tracker = "dom" ->
         /\ domT.observer /\ domT.scriptObservers = 1 /\ domT.messageListener
         /\ Len(domT.loops) = 1
    [] tracker = "net" ->
         netT.attached /\ netT.enabled /\ netT.listeners = 1
    [] tracker = "spa" ->
         /\ spaT.wrapDepth = 1 /\ spaT.popListeners = 1 /\ spaT.hashListeners = 1
         /\ spaT.tabListeners = 1 /\ Len(spaT.loops) = 1

\* C12: on each tracker, a second start after a completed start with no stop in
\* between leaves the active flag true and exactly one installation: one
\* observer, one event listener, one relay loop, one set of wrapped entry points
C12_OneInstallation ==
  \A t \in DOMAIN Trackers :
     DoubleStarted(Trackers[t]) => isActive(Trackers[t]) /\ OneInstallation(Trackers[t])

\* every batch of the burst arrived less than the debounce window after the one before
Burst(batches, d) ==
  \A k \in DOMAIN batches : k > 1 => batches[k].at - batches[k - 1].at < d

Flatten(batches) ==
  IF batches = << >> THEN << >>
  ELSE LET F[k \in 0 .. Len(batches)] ==
             IF k = 0 THEN << >> ELSE F[k - 1] \o batches[k].mutations
       IN F[Len(batches)]

DebounceOf(id) ==
  domT.callbacks[CHOOSE k \in DOMAIN domT.callbacks : domT.callbacks[k].id = id].debounceMs

\* C13: a burst of mutation batches, each less than the debounce window after
\* the one before, gives the subscriber one call that carries the mutations of
\* all the batches since its last call, not just those of the last batch
C13_CarriesUnion ==
  \A k \in DOMAIN trace.invoked :
     LET inv == trace.invoked[k]
     IN (inv.tracker = "dom" /\ Burst(inv.expected, DebounceOf(inv.id)))
           => inv.payload = Flatten(inv.expected)

Methods(events) == [k \in DOMAIN events |-> events[k].method]

\* C14: once startMonitoring() has completed, a pushState transition in the page
\* followed by a hash change eventually shows in the navigation history as a
\* pushState event followed by a hashchange event, each exactly once
C14_Relayed ==
  (trace.transitions = <<"pushState", "hashchange">>)
     ~> (Methods(spaT.navigationHistory) = <<"pushState", "hashchange">>)

\* C15: the navigation history never holds more than 100 events; it holds the
\* events handled most recently, in the order handled, so that the 101st event
\* evicts the oldest one
C15_BoundedRouteHistory ==
  /\ Len(spaT.navigationHistory) <= RouteHistoryLimit
  /\ spaT.navigationHistory =
        LastN(trace.handled, Min(RouteHistoryLimit, Len(trace.handled)))

C15_Witness ==
  /\ Len(trace.handled) = RouteHistoryLimit + 1
  /\ Len(spaT.navigationHistory) = RouteHistoryLimit
  /\ spaT.navigationHistory[1] = trace.handled[2]
  /\ Last(spaT.navigationHistory) = Last(trace.handled)

\* what subscriber id of a tracker has been called with, in order
CalledWith(tracker, id) ==
  LET own == SelectSeq(trace.invoked, LAMBDA inv : inv.tracker = tracker /\ inv.id = id)
  IN [k \in DOMAIN own |-> own[k].payload]

TimerHeld(id) == \E j \in DOMAIN domT.debounceTimers : domT.debounceTimers[j].id = id

\* the requests the monitor has notified of: the ones moved to completed appear
\* completed, the others as started
Completions(seen) == SelectSeq(seen, LAMBDA r : r.completed)

Started(tracker) ==
  \E k \in DOMAIN calls :
     /\ calls[k].tracker = tracker /\ calls[k].op = "start"
     /\ ~ calls[k].guarded /\ calls[k].outcome = "resolved"

\* C16: in each tracker a subscriber that throws keeps no other subscriber from
\* being called for the same event, the tracker's own update for the event
\* (history, pending and completed requests) is made, and the tracker stays active
C16_DispatchIsolated ==
  /\ \A k \in DOMAIN requestCallbacks :
        requestCallbacks[k].listener = 0 =>
           /\ Len(requestCallbacks[k].seen) = started + Len(terminated)
           /\ Completions(requestCallbacks[k].seen) = terminated
           /\ completedRequests = terminated
  /\ \A k \in DOMAIN spaT.routeChangeCallbacks :
        /\ CalledWith("spa", spaT.routeChangeCallbacks[k].id) = trace.handled
        /\ spaT.navigationHistory = trace.handled
  /\ \A k \in DOMAIN domT.callbacks :
        ~ TimerHeld(domT.callbacks[k].id) =>
           \A l \in DOMAIN domT.callbacks :
              ~ TimerHeld(domT.callbacks[l].id) =>
                 CalledWith("dom", domT.callbacks[k].id)
                    = CalledWith("dom", domT.callbacks[l].id)
  /\ \A t \in DOMAIN Trackers : Started(Trackers[t]) => isActive(Trackers[t])

\* each tracker has called a subscriber after one that threw for the same event
C16_Witness ==
  \/ /\ Len(requestCallbacks) = 2
     /\ requestCallbacks[1].listener = 0 /\ requestCallbacks[1].throws
     /\ terminated # << >> /\ requestCallbacks[2].seen # << >>
     /\ started = 2
  \/ /\ Len(trace.invoked) = 2 * MaxDispatch
     /\ trace.invoked[1].tracker = "spa" /\ trace.invoked[1].threw
     /\ ~ trace.invoked[2].threw
  \/ /\ Len(trace.invoked) = 2 * MaxDispatch
     /\ trace.invoked[1].tracker = "dom" /\ trace.invoked[1].threw
     /\ ~ trace.invoked[2].threw

Navigated(k) ==
  /\ calls[k].op = "navigate" /\ calls[k].pc = "done" /\ calls[k].waitForLoad
  /\ calls[k].routeWait # 0

\* the content wait succeeded, or there is no LoadingDetector to wait through
ContentWaitOk(k) == spaT.loadingDetector => calls[k].contentLoaded

\* C17: with waitForLoad, navigateToRoute returns true only if the route wait
\* and the content wait both succeeded, and false if either of them failed
C17_BothWaits ==
  \A k \in DOMAIN calls :
     Navigated(k) =>
        (calls[k].result <=> (calls[k].routeChanged /\ ContentWaitOk(k)))

\* C18: waitForRouteChange called without an expected route resolves true only
\* if the page's route has become different from what it was when the call
\* was made
C18_ChangeFromCallTime ==
  \A i \in DOMAIN waits :
     (waits[i].kind = "route" /\ waits[i].expectedRoute = << >> /\ waits[i].status = "true")
        => waits[i].routeAtDone # waits[i].routeAtCall

(***************************************************************************)
(* Claims about DynamicStateManager                                        *)
(***************************************************************************)
Owned(j, op) == {k \in Children(j) : calls[k].op = op}

\* C19: an initialize() called on an initialized manager starts nothing; an
\* initialize() one of whose starts fails rejects and leaves the manager not
\* initialized; the manager is marked only when every start has succeeded
C19_InitializeOnceOrFail ==
  \A j \in DOMAIN mgr.ops :
     mgr.ops[j].op = "initialize" =>
        /\ mgr.ops[j].guarded => Children(j) = {}
        /\ (\E k \in Children(j) : calls[k].outcome = "rejected")
              => mgr.ops[j].outcome # "resolved"
        /\ mgr.ops[j].outcome = "rejected" => ~ mgr.ops[j].activeAfter
        /\ (mgr.ops[j].outcome = "resolved" /\ ~ mgr.ops[j].guarded)
              => \A k \in Children(j) : calls[k].outcome = "resolved"

\* an initialize() has rejected though one of its starts succeeded, a later
\* one has marked the manager, and one after that has returned at its guard
C19_Witness ==
  /\ \E j \in DOMAIN mgr.ops :
        /\ mgr.ops[j].op = "initialize" /\ mgr.ops[j].outcome = "rejected"
        /\ \E k \in Children(j) : calls[k].outcome = "resolved"
  /\ \E j \in DOMAIN mgr.ops : mgr.ops[j].op = "initialize" /\ mgr.ops[j].guarded
  /\ mgr.isInitialized

\* C20: cleanup() on an initialized manager calls stop once on every tracker
\* the manager has, whatever the other stops do, and never rejects
C20_CleanupStopsAll ==
  \A j \in DOMAIN mgr.ops :
     (mgr.ops[j].op = "cleanup" /\ ~ mgr.ops[j].guarded) =>
        /\ \A t \in DOMAIN enabledTrackers :
              Cardinality({k \in Owned(j, "stop") : calls[k].tracker = enabledTrackers[t]}) = 1
        /\ mgr.ops[j].outcome # "rejected"

\* a cleanup() has returned after stopping three trackers, the stop of one of
\* which threw
C20_Witness ==
  \E j \in DOMAIN mgr.ops :
     /\ mgr.ops[j].op = "cleanup" /\ mgr.ops[j].outcome = "resolved"
     /\ Cardinality(Owned(j, "stop")) = 3
     /\ \E k \in Owned(j, "stop") : calls[k].threw
     /\ \E k \in Owned(j, "stop") : ~ calls[k].threw /\ ~ calls[k].guarded

(***************************************************************************)
(* Claims about stopping the trackers                                      *)
(***************************************************************************)
\* the last call made on the tracker is a stop that found it active and has
\* returned without an error
Stopped(tracker) ==
  \E k \in DOMAIN calls :
     /\ calls[k].tracker = tracker /\ calls[k].op = "stop"
     /\ ~ calls[k].guarded /\ calls[k].outcome = "resolved" /\ ~ calls[k].threw
     /\ \A m \in DOMAIN calls : m > k => calls[m].tracker # tracker

\* C21: after stopObserving() on an observing DOMObserver has returned, no
\* subscriber is registered and no debounce timer is pending
C21_StopClearsSubscribers ==
  Stopped("dom") => domT.callbacks = << >> /\ domT.debounceTimers = << >>

\* C22: after stopMonitoring() on a monitoring NetworkMonitor has returned, the
\* pending requests, the completed requests and the request callbacks are all
\* empty
C22_StopClearsRequests ==
  Stopped("net") =>
     /\ pendingRequests = EmptyMap
     /\ completedRequests = << >>
     /\ requestCallbacks = << >>

\* C23: after stopMonitoring() on a monitoring SPANavigator has returned, the
\* page is as it was before the start: history.pushState and replaceState are
\* the native ones, no popstate and no hashchange listener of the navigator is
\* left, window.navibrowserRouteChanges is gone, and no route-change callback
\* is registered
C23_StopRestoresPage ==
  Stopped("spa") =>
     /\ spaT.wrapDepth = 0
     /\ spaT.popListeners = 0
     /\ spaT.hashListeners = 0
     /\ ~ spaT.bufferDefined
     /\ spaT.routeChangeCallbacks = << >>

\* C24: once startObserving() has completed with a subscriber registered, a
\* mutation batch posted in the page eventually reaches a subscriber
C24_MutationDelivered ==
  (trace.batches # << >>) ~> (\E k \in DOMAIN trace.invoked : trace.invoked[k].tracker = "dom")

\* the tracker whose session a wait polls
OwnerOf(w) == IF w.kind = "idle" THEN "net" ELSE "dom"

\* C25: once the stop of its tracker has completed, a wait that is still
\* polling ends at its next poll instead of scheduling another one
C25_WaitsEndAtTeardown ==
  [][\A i \in DOMAIN waits :
        (Stopped(OwnerOf(waits[i])) /\ waits[i].status = "run" /\ waits'[i] # waits[i])
           => waits'[i].status # "run"]_vars

(***************************************************************************)
(* Claims about the waits and the page                                     *)
(***************************************************************************)
\* C26: a waitForRouteChange call that ends at a poll in which the page could
\* not be reached resolves false
C26_PageFailureIsNegative ==
  \A i \in DOMAIN waits :
     (waits[i].kind = "route" /\ waits[i].status # "run" /\ waits[i].errored)
        => waits[i].status = "false"

\* C27: a waitForContentLoaded call enters the fallback at most once: the call
\* made with the canned pattern builds at least one promise and waits on it
C27_FallbackOnce ==
  /\ arb.depth <= 1
  /\ arb.depth = 1 => arb.pc \in {"waiting", "done"} /\ arb.promises # << >>

\* a call without a NetworkMonitor has returned through the canned pattern of
\* a platform the page was found to be
C27_Witness ==
  /\ arb.pc = "done" /\ arb.depth = 1
  /\ ~ networkMonitor
  /\ arb.platform = "dropbox"

(***************************************************************************)
(* Claims about the subscribers of the DOMObserver                         *)
(***************************************************************************)
TimersOf(timers, id) == SelectSeq(timers, LAMBDA t : t.id = id)

Calls(id) == Len(CalledWith("dom", id))

\* C28: each subscriber id of the DOMObserver has its own debounce window. A
\* processed batch gives every registered id one timer, due after that id's
\* debounceMs; a callback is called only while its id is registered, when its
\* own timer is due, and the call leaves the timers of the other ids as they
\* are; removeCallback(id) leaves no timer for id and leaves the timers of the
\* other ids as they are
C28_IndependentWindows ==
  [][\A id \in CallbackIds :
        /\ Len(TimersOf(domT.debounceTimers, id)') <= (IF Registered(id)' THEN 1 ELSE 0)
        /\ (domT.latestMutations # << >> /\ domT.latestMutations' = << >> /\ Registered(id))
              => TimersOf(domT.debounceTimers, id)' =
                    <<[id |-> id, throws |-> FALSE, due |-> now + DebounceOf(id),
                       payload |-> domT.latestMutations]>>
        /\ Calls(id)' # Calls(id)
              => /\ Registered(id)
                 /\ TimersOf(domT.debounceTimers, id) # << >>
                 /\ TimersOf(domT.debounceTimers, id)[1].due = now
                 /\ \A other \in CallbackIds \ {id} :
                       TimersOf(domT.debounceTimers, other)'
                          = TimersOf(domT.debounceTimers, other)
        /\ (trace.removed' # trace.removed /\ Registered(id)')
              => TimersOf(domT.debounceTimers, id)' = TimersOf(domT.debounceTimers, id)
    ]_vars

\* both subscribers were called with the first batch, the one with the shorter
\* window first; that one was then removed with the second batch pending for
\* it, and the second batch reached the other subscriber alone
C28_Witness ==
  /\ trace.removed = 1 /\ ~ Registered("s2")
  /\ CalledWith("dom", "s2") = << <<1>> >>
  /\ CalledWith("dom", "s1") = << <<1>>, <<2>> >>
  /\ trace.invoked[1].id = "s2"

\* the place of a subscriber id in the registry
PlaceOf(id) == CHOOSE k \in DOMAIN domT.callbacks : domT.callbacks[k].id = id

\* C29: the subscribers of the DOMObserver are called for a mutation batch in
\* the order in which they were registered
C29_RegistrationOrder ==
  \A a, b \in DOMAIN trace.invoked :
     (/\ a < b
      /\ trace.invoked[a].tracker = "dom" /\ trace.invoked[b].tracker = "dom"
      /\ trace.invoked[a].payload = trace.invoked[b].payload
      /\ trace.invoked[a].id # trace.invoked[b].id)
        => PlaceOf(trace.invoked[a].id) < PlaceOf(trace.invoked[b].id)

(***************************************************************************)
(* Claims about the subscribers of the NetworkMonitor                      *)
(***************************************************************************)
\* C30: a subscriber of the NetworkMonitor is notified when a request receives
\* its status: for every pending request that has its status, the subscriber
\* has been called with that request carrying the status and not yet completed
C30_NotifiedOfStatus ==
  \A k \in DOMAIN requestCallbacks :
     requestCallbacks[k].listener = 0 =>
        \A id \in DOMAIN pendingRequests :
           pendingRequests[id].status # 0 =>
              \E s \in DOMAIN requestCallbacks[k].seen :
                 /\ requestCallbacks[k].seen[s].requestId = id
                 /\ requestCallbacks[k].seen[s].status # 0
                 /\ ~ requestCallbacks[k].seen[s].completed

(***************************************************************************)
(* Claims about starts that overlap and about events after a stop          *)
(***************************************************************************)
\* two starts of the tracker passed the guard, both have completed, and no
\* stop has been called on the tracker
OverlapStarted(tracker) ==
  /\ Cardinality({k \in DOMAIN calls :
        /\ calls[k].tracker = tracker /\ calls[k].op = "start"
        /\ ~ calls[k].guarded /\ calls[k].outcome = "resolved"}) = 2
  /\ \A k \in DOMAIN calls : calls[k].tracker = tracker => calls[k].op = "start"

\* C31: two starts of a tracker that overlap leave one installation (one page
\* observer, one wrapper around the history entry points, one listener of each
\* kind), and a stop after them leaves the page's native entry points
C31_OverlapInstallsOnce ==
  /\ OverlapStarted("dom") => domT.observer /\ domT.scriptObservers = 1
  /\ OverlapStarted("spa") =>
        /\ spaT.wrapDepth = 1 /\ spaT.popListeners = 1
        /\ spaT.hashListeners = 1 /\ spaT.tabListeners = 1
  /\ Stopped("spa") => spaT.wrapDepth = 0

\* the requestListener of waitForRequests call i is in the callback registry
Listening(i) == \E k \in DOMAIN requestCallbacks : requestCallbacks[k].listener = i

\* C32: waitForRequests calls in flight at the same time do not interfere:
\* as long as a call has neither resolved nor timed out, its own listener
\* is registered, whatever the other calls and their timers have done
C32_CallsIndependent ==
  \A i \in DOMAIN waits :
     waits[i].kind = "urls" /\ waits[i].status = "run" => Listening(i)

\* C33: after stopMonitoring() of the SPANavigator has completed, a URL change
\* of the tab appends nothing to the navigation history, and at any time one
\* event appends at most one entry, however many starts there were before
C33_StoppedIgnoresEvents ==
  [][/\ Stopped("spa") => spaT.navigationHistory' = spaT.navigationHistory
     /\ Len(spaT.navigationHistory') <= Len(spaT.navigationHistory) + 1]_vars

(***************************************************************************)
(* Claims about the manager after a failure                                *)
(***************************************************************************)
LastOp == mgr.ops[Len(mgr.ops)]

NoneActive == \A t \in DOMAIN enabledTrackers : ~ isActive(enabledTrackers[t])

\* C34: a cleanup() that follows an initialize() which rejected although one
\* of its starts succeeded calls stop on every tracker the manager has
C34_CleanupAfterFailedInitialize ==
  \A j \in DOMAIN mgr.ops :
     (/\ j > 1
      /\ mgr.ops[j].op = "cleanup"
      /\ mgr.ops[j - 1].op = "initialize" /\ mgr.ops[j - 1].outcome = "rejected"
      /\ \E k \in Owned(j - 1, "start") : calls[k].outcome = "resolved")
        => \A t \in DOMAIN enabledTrackers :
              \E k \in Owned(j, "stop") : calls[k].tracker = enabledTrackers[t]

\* C35: when cleanup() has returned no tracker of the manager is active, and
\* a manager at rest that is not initialized has no active tracker
C35_InactiveMeansNoneActive ==
  /\ (mgr.ops # << >> /\ LastOp.op = "cleanup" /\ LastOp.outcome = "resolved") => NoneActive
  /\ (MgrIdle /\ ~ mgr.isInitialized) => NoneActive

\* every call made on the tracker so far is a start that threw
StartFailed(tracker) ==
  /\ \E k \in DOMAIN calls : calls[k].tracker = tracker
  /\ \A k \in DOMAIN calls :
        calls[k].tracker = tracker => calls[k].op = "start" /\ calls[k].outcome = "rejected"

\* C36: a tracker whose start threw is inactive and has none of its
\* instrumentation installed: what the earlier steps of the start installed
\* has been undone
C36_FailedStartInstallsNothing ==
  /\ StartFailed("dom") =>
        ~ domT.isObserving /\ ~ domT.observer /\ domT.scriptObservers = 0
        /\ ~ domT.messageListener
  /\ StartFailed("net") =>
        ~ netT.isMonitoring /\ ~ netT.attached /\ ~ netT.enabled /\ netT.listeners = 0
  /\ StartFailed("spa") =>
        ~ spaT.isMonitoring /\ spaT.wrapDepth = 0 /\ spaT.popListeners = 0
        /\ spaT.hashListeners = 0 /\ spaT.tabListeners = 0 /\ ~ spaT.bufferDefined

(***************************************************************************)
(* Claims about the action layer                                           *)
(***************************************************************************)
\* C37: an action calls waitForContentLoaded only on the detector of a
\* manager whose initialize() has completed
C37_WaitsOnInitializedOnly ==
  [][(arb.pc = "idle" /\ arb.pc' # "idle") => mgr.isInitialized]_vars

C39_SettledAtReturn ==
  (/\ Returned /\ arb.result /\ Len(arb.promises) >= 2
   /\ Built("content") => TrueBy("content") # {}) =>
     /\ \A i \in TaskWaits("spinner") : waits[i].selector \notin domPresent
     /\ Built("content") => \E i \in TaskWaits("content") : waits[i].selector \in domPresent
     /\ Built("idle") => pendingRequests = EmptyMap

\* C40: a call whose pattern carries a network condition returns true only
\* if a wait on the network was made for it and resolved true
C40_NetworkConditionHeld ==
  (Returned /\ arb.result) =>
     \E t \in {"idle", "urls"} :
        Built(t) /\ TaskWaits(t) # {} /\ TrueBy(t) = TaskWaits(t)

====
